---- MODULE Spec2Model ----
(***************************************************************************)
(* Reconciliation engine of the pharma competitive-intelligence tool:      *)
(* services/data_processor.py (DataProcessor) over the entity store of     *)
(* database/models.py, one transactional session per batch                 *)
(* (database/connection.py get_session).                                   *)
(***************************************************************************)
EXTENDS Integers, Sequences, FiniteSets, TLC

VARIABLES
    trials,         \* clinical_trials table, committed rows by nct_id
    changes,        \* clinical_trial_changes table, committed, in insertion order
    publications,   \* publications table, committed rows by pmid
    news_articles,  \* news_articles table, committed rows by url
    patents,        \* patents table, committed rows by patent_number
    pre,            \* the committed store as it was before the last call
    call,           \* the last DataProcessor call: arguments, counters, result
    ncalls,         \* number of calls made so far
    db,             \* the tables as the server holds them: committed rows
    runs,           \* the DataProcessor calls that overlap in time
    nstarted,       \* number of overlapping calls started so far
    collector,      \* the ClinicalTrialsCollector call of the run, where it stands
    scheduler       \* the module-level _scheduler and the schedulers created

callvars == <<trials, changes, publications, news_articles, patents, pre, call, ncalls,
             collector, scheduler>>
vars == <<trials, changes, publications, news_articles, patents, pre, call, ncalls,
          db, runs, nstarted, collector, scheduler>>

----------------------------------------------------------------------------
(* Bounds of the model *)

MaxCalls == 3
MaxFresh == 2
MaxBatch == 2
MaxDay == 2
MaxHour == 1
MaxId == 2
MaxRuns == 2
MaxStarts == 3

----------------------------------------------------------------------------
(* Python values.  A value carries its type, so that None, "", 0, a date   *)
(* and a datetime of the same day are all different values.                *)

None == [k |-> "none"]
StrV(s) == [k |-> "str", v |-> s]
IntV(n) == [k |-> "int", v |-> n]
DateV(d) == [k |-> "date", d |-> d]
DateTimeV(d, h) == [k |-> "datetime", d |-> d, h |-> h]
\* a dict without the key (trial["nct_id"] raises KeyError)
Missing == [k |-> "missing"]

\* bool(v): None, "" and 0 are false
Truthy(v) ==
    CASE v.k = "none" -> FALSE
      [] v.k = "missing" -> FALSE
      [] v.k = "str" -> v.v # ""
      [] v.k = "int" -> v.v # 0
      [] OTHER -> TRUE

\* Python's `a or b`
PyOr(a, b) == IF Truthy(a) THEN a ELSE b

DateText(d) == "2024-01-0" \o ToString(d)
TimeText(h) == "0" \o ToString(h) \o ":00:00"

\* str(v) for the types a tracked field can hold
PyStr(v) ==
    CASE v.k = "str" -> v.v
      [] v.k = "int" -> ToString(v.v)
      [] v.k = "date" -> DateText(v.d)
      [] v.k = "datetime" -> DateText(v.d) \o " " \o TimeText(v.h)
      [] OTHER -> "None"

\* `x.date() if hasattr(x, "date") else x`: only a datetime has .date()
date_of(v) == IF v.k = "datetime" THEN DateV(v.d) ELSE v

\* What a Date column returns once the row is committed and loaded again
DateColumn(v) == IF v.k = "datetime" THEN DateV(v.d) ELSE v

TRACKED_TRIAL_FIELDS == <<"status", "phase", "enrollment", "completion_date">>

----------------------------------------------------------------------------
(* The entity store *)

\* The ids of the rows of assets and of indications; an id of no row
Ids == {IntV(i) : i \in 1..MaxId}
DanglingId == IntV(MaxId + 1)

\* ForeignKey("assets.id"), ForeignKey("indications.id")
fk_ok(id) == id = None \/ id \in Ids

NctIds == {"NCT0001", "NCT0002"}

EmptyTable(keys) == [key \in keys |-> None]

\* The committed form of a clinical_trials row: Date columns hold dates
commit_trial(row) ==
    IF row = None THEN None
    ELSE [row EXCEPT !.start_date = DateColumn(@),
                     !.completion_date = DateColumn(@),
                     !.last_updated = DateColumn(@)]

\* Faulty variant: the new row does not keep the upstream marker
new_trial_no_marker(trial, asset_id, indication_id, search_type) ==
    [nct_id |-> trial.nct_id,
     asset_id |-> asset_id,
     indication_id |-> indication_id,
     title |-> trial.title,
     status |-> trial.status,
     phase |-> trial.phase,
     start_date |-> trial.start_date,
     completion_date |-> trial.completion_date,
     enrollment |-> trial.enrollment,
     sponsor |-> trial.sponsor,
     primary_endpoint |-> trial.primary_endpoint,
     results_summary |-> trial.summary,
     source_url |-> trial.source_url,
     last_updated |-> None,
     search_type |-> search_type,
     raw_data |-> trial.raw_data]

\* ClinicalTrial(...) as built for a new NCT id
new_trial(trial, asset_id, indication_id, search_type) ==
    [nct_id |-> trial.nct_id,
     asset_id |-> asset_id,
     indication_id |-> indication_id,
     title |-> trial.title,
     status |-> trial.status,
     phase |-> trial.phase,
     start_date |-> trial.start_date,
     completion_date |-> trial.completion_date,
     enrollment |-> trial.enrollment,
     sponsor |-> trial.sponsor,
     primary_endpoint |-> trial.primary_endpoint,
     results_summary |-> trial.summary,
     source_url |-> trial.source_url,
     last_updated |-> trial.last_updated,
     search_type |-> search_type,
     raw_data |-> trial.raw_data]

\* ClinicalTrialChange(...)
ClinicalTrialChange(nct_id, field_name, old_value, new_value) ==
    [nct_id |-> nct_id, field_name |-> field_name,
     old_value |-> old_value, new_value |-> new_value]

----------------------------------------------------------------------------
(* DataProcessor._detect_trial_changes: the change rows the field diff adds *)

\* Faulty variant: an incoming None is recorded as a change too
field_change_to_none(existing, new_data, field_name) ==
    LET old_value == existing[field_name]
        new_value == new_data[field_name]
        old_str == IF old_value # None THEN StrV(PyStr(old_value)) ELSE None
        new_str == IF new_value # None THEN StrV(PyStr(new_value)) ELSE None
    IN  IF old_str # new_str
        THEN <<ClinicalTrialChange(existing.nct_id, field_name, old_str, new_str)>>
        ELSE <<>>

field_change(existing, new_data, field_name) ==
    LET old_value == existing[field_name]
        new_value == new_data[field_name]
        old_str == IF old_value # None THEN StrV(PyStr(old_value)) ELSE None
        new_str == IF new_value # None THEN StrV(PyStr(new_value)) ELSE None
    IN  IF old_str # new_str /\ new_str # None
        THEN <<ClinicalTrialChange(existing.nct_id, field_name, old_str, new_str)>>
        ELSE <<>>

RECURSIVE detect_from(_, _, _)
detect_from(existing, new_data, i) ==
    IF i > Len(TRACKED_TRIAL_FIELDS) THEN <<>>
    ELSE field_change(existing, new_data, TRACKED_TRIAL_FIELDS[i])
         \o detect_from(existing, new_data, i + 1)

detect_trial_changes(existing, new_data) == detect_from(existing, new_data, 1)

----------------------------------------------------------------------------
(* DataProcessor.process_clinical_trials, one record of the batch.  s is   *)
(* the session: the rows as the session sees them (objects it changed keep *)
(* the Python values assigned to them until commit), the change rows and   *)
(* the three counters.                                                     *)

Note(s, tag) == [s EXCEPT !.outcomes = Append(@, tag)]

\* Faulty variant: a stored row never takes a link
id_missing_never(hint, stored) == FALSE

\* `if asset_id and not existing.asset_id`
id_missing(hint, stored) == Truthy(hint) /\ ~Truthy(stored)

\* Faulty variant: a hint replaces whatever link is stored
merge_ids_overwrite(existing, asset_id, indication_id) ==
    [existing EXCEPT
        !.asset_id = IF Truthy(asset_id) THEN asset_id ELSE @,
        !.indication_id = IF Truthy(indication_id) THEN indication_id ELSE @]

\* lines 85-93: merge asset_id/indication_id if missing
merge_ids(existing, asset_id, indication_id) ==
    [existing EXCEPT
        !.asset_id = IF id_missing(asset_id, @) THEN asset_id ELSE @,
        !.indication_id = IF id_missing(indication_id, @)
                          THEN indication_id ELSE @]

\* lines 114-124: the overwrite made when the diff found a change
overwrite_trial(existing, trial) ==
    [existing EXCEPT
        !.title = PyOr(trial.title, @),
        !.status = trial.status,
        !.phase = trial.phase,
        !.start_date = PyOr(trial.start_date, @),
        !.completion_date = trial.completion_date,
        !.enrollment = trial.enrollment,
        !.sponsor = PyOr(trial.sponsor, @),
        !.primary_endpoint = trial.primary_endpoint,
        !.results_summary = trial.summary,
        !.raw_data = trial.raw_data]

\* Faulty variant: the markers are compared as they are, a date with a datetime
same_marker_exact(existing, trial) ==
    existing.last_updated = trial.last_updated

\* lines 95-103: the markers are equal at date granularity
same_marker(existing, trial) ==
    date_of(existing.last_updated) = date_of(trial.last_updated)

\* title and source_url are NOT NULL; asset_id and indication_id reference
\* assets.id and indications.id
trial_row_ok(row) ==
    /\ row.title # None
    /\ row.source_url # None
    /\ fk_ok(row.asset_id)
    /\ fk_ok(row.indication_id)

\* The store accepts the rows the session has added or changed
flush_ok(s) == \A n \in NctIds : s.trials[n] # None => trial_row_ok(s.trials[n])

\* Faulty variant: the row is inserted but no "new_trial" change row is added
insert_trial_unseeded(s, trial, asset_id, indication_id, search_type) ==
    Note([s EXCEPT
            !.trials[trial.nct_id.v] =
                new_trial(trial, asset_id, indication_id, search_type),
            !.new_count = @ + 1],
         "new")

\* lines 54-83.  session.flush() sends the new row and every change the
\* session holds; when the store rejects one of them the flush raises, the
\* transaction is rolled back and the session stays inactive.
insert_trial(s, trial, asset_id, indication_id, search_type) ==
    LET added == [s EXCEPT !.trials[trial.nct_id.v] =
                      new_trial(trial, asset_id, indication_id, search_type)]
    IN  IF flush_ok(added)
        THEN Note([added EXCEPT
                     !.changes = Append(@, ClinicalTrialChange(
                         trial.nct_id, "new_trial", None, trial.nct_id)),
                     !.new_count = @ + 1],
                  "new")
        ELSE Note([s EXCEPT !.failed = TRUE], "error")

\* Faulty variant: the marker is stored only together with changed fields
update_trial_marker_with_changes(s, trial, asset_id, indication_id) ==
    LET existing == s.trials[trial.nct_id.v]
        merged == merge_ids(existing, asset_id, indication_id)
        id_merged == \/ id_missing(asset_id, existing.asset_id)
                     \/ id_missing(indication_id, existing.indication_id)
        found == detect_trial_changes(merged, trial)
        has_changes == found # <<>>
    IN  IF same_marker(merged, trial)
        THEN IF id_merged
             THEN Note([s EXCEPT !.trials[trial.nct_id.v] = merged,
                                 !.updated_count = @ + 1], "merged")
             ELSE Note([s EXCEPT !.skipped_count = @ + 1], "skipped")
        ELSE IF has_changes
             THEN Note([s EXCEPT
                          !.trials[trial.nct_id.v] =
                              [overwrite_trial(merged, trial) EXCEPT
                                  !.last_updated = trial.last_updated],
                          !.changes = @ \o found,
                          !.updated_count = @ + 1], "updated")
             ELSE Note([s EXCEPT !.trials[trial.nct_id.v] = merged], "unchanged")

\* Faulty variant: the marker is checked first; the links are merged only with a diff
update_trial_skip_first(s, trial, asset_id, indication_id) ==
    LET existing == s.trials[trial.nct_id.v]
        merged == merge_ids(existing, asset_id, indication_id)
        found == detect_trial_changes(merged, trial)
        has_changes == found # <<>>
    IN  IF same_marker(existing, trial)
        THEN Note([s EXCEPT !.skipped_count = @ + 1], "skipped")
        ELSE IF has_changes
             THEN Note([s EXCEPT
                          !.trials[trial.nct_id.v] =
                              [overwrite_trial(merged, trial) EXCEPT
                                  !.last_updated = trial.last_updated],
                          !.changes = @ \o found,
                          !.updated_count = @ + 1], "updated")
             ELSE Note([s EXCEPT
                          !.trials[trial.nct_id.v] =
                              [merged EXCEPT !.last_updated = trial.last_updated]],
                       "unchanged")

\* Faulty variant: a record that only merged a link is counted as skipped
update_trial_merge_skipped(s, trial, asset_id, indication_id) ==
    LET existing == s.trials[trial.nct_id.v]
        merged == merge_ids(existing, asset_id, indication_id)
        found == detect_trial_changes(merged, trial)
        has_changes == found # <<>>
    IN  IF same_marker(merged, trial)
        THEN Note([s EXCEPT !.trials[trial.nct_id.v] = merged,
                            !.skipped_count = @ + 1],
                  IF merged = existing THEN "skipped" ELSE "merged")
        ELSE IF has_changes
             THEN Note([s EXCEPT
                          !.trials[trial.nct_id.v] =
                              [overwrite_trial(merged, trial) EXCEPT
                                  !.last_updated = trial.last_updated],
                          !.changes = @ \o found,
                          !.updated_count = @ + 1], "updated")
             ELSE Note([s EXCEPT
                          !.trials[trial.nct_id.v] =
                              [merged EXCEPT !.last_updated = trial.last_updated]],
                       "unchanged")

update_trial(s, trial, asset_id, indication_id) ==
    LET existing == s.trials[trial.nct_id.v]
        merged == merge_ids(existing, asset_id, indication_id)
        id_merged == \/ id_missing(asset_id, existing.asset_id)
                     \/ id_missing(indication_id, existing.indication_id)
        found == detect_trial_changes(merged, trial)
        has_changes == found # <<>>
    IN  IF same_marker(merged, trial)
        THEN IF id_merged
             THEN Note([s EXCEPT !.trials[trial.nct_id.v] = merged,
                                 !.updated_count = @ + 1], "merged")
             ELSE Note([s EXCEPT !.skipped_count = @ + 1], "skipped")
        ELSE IF has_changes
             THEN Note([s EXCEPT
                          !.trials[trial.nct_id.v] =
                              [overwrite_trial(merged, trial) EXCEPT
                                  !.last_updated = trial.last_updated],
                          !.changes = @ \o found,
                          !.updated_count = @ + 1], "updated")
             ELSE Note([s EXCEPT
                          !.trials[trial.nct_id.v] =
                              [merged EXCEPT !.last_updated = trial.last_updated]],
                       "unchanged")

\* Faulty variant: a stored row takes the search_type of the batch
handle_trial_retag(s, trial, asset_id, indication_id, search_type) ==
    IF trial.nct_id = Missing \/ s.failed
    THEN Note(s, "error")
    ELSE IF s.trials[trial.nct_id.v] = None
         THEN insert_trial(s, trial, asset_id, indication_id, search_type)
         ELSE [update_trial(s, trial, asset_id, indication_id) EXCEPT
                  !.trials[trial.nct_id.v].search_type = search_type]

\* lines 48-131: one pass of the loop body.  The except catches the
\* KeyError of a record without "nct_id" and, once a flush has failed, the
\* PendingRollbackError that session.query raises for every later record.
handle_trial(s, trial, asset_id, indication_id, search_type) ==
    IF trial.nct_id = Missing \/ s.failed
    THEN Note(s, "error")
    ELSE IF s.trials[trial.nct_id.v] = None
         THEN insert_trial(s, trial, asset_id, indication_id, search_type)
         ELSE update_trial(s, trial, asset_id, indication_id)

\* The row of the record's trial as the session holds it
row_of(s, trial) ==
    IF trial.nct_id = Missing THEN None ELSE s.trials[trial.nct_id.v]

\* handle_trial, with what it did to the row and to the change log noted
process_trial(s, trial, asset_id, indication_id, search_type) ==
    LET t == handle_trial(s, trial, asset_id, indication_id, search_type)
    IN  [t EXCEPT !.steps = Append(@,
            [before |-> row_of(s, trial),
             after |-> row_of(t, trial),
             events |-> SubSeq(t.changes, Len(s.changes) + 1, Len(t.changes))])]

RECURSIVE process_trials_from(_, _, _, _, _, _)
process_trials_from(s, batch, i, asset_id, indication_id, search_type) ==
    IF i > Len(batch) THEN s
    ELSE process_trials_from(
             process_trial(s, batch[i], asset_id, indication_id, search_type),
             batch, i + 1, asset_id, indication_id, search_type)

\* Faulty variant: the session starts from an empty change log, so that its
\* commit leaves only the events of the call
session_on_fresh_log(table, log) ==
    [trials |-> table, changes |-> <<>>,
     new_count |-> 0, updated_count |-> 0, skipped_count |-> 0,
     failed |-> FALSE, outcomes |-> <<>>, steps |-> <<>>]

\* get_session(): a new session on a committed store
session_on(table, log) ==
    [trials |-> table, changes |-> log,
     new_count |-> 0, updated_count |-> 0, skipped_count |-> 0,
     failed |-> FALSE, outcomes |-> <<>>, steps |-> <<>>]

\* The session of one call at the end of the loop (line 40: an empty batch
\* returns at once)
run_trials(table, log, batch, asset_id, indication_id, search_type) ==
    IF batch = <<>> THEN session_on(table, log)
    ELSE process_trials_from(session_on(table, log), batch, 1,
                             asset_id, indication_id, search_type)

\* session.commit(): the rows as the next session loads them
commit_trials(s) == [n \in NctIds |-> commit_trial(s.trials[n])]

\* get_session: session.commit() raises in an inactive session and when the
\* store rejects a pending change; then the rollback, and the exception goes
\* to the caller
commit_raises(s) == s.failed \/ ~flush_ok(s)

\* The committed store and the call that produced it
Snapshot ==
    [trials |-> trials, changes |-> changes, publications |-> publications,
     news_articles |-> news_articles, patents |-> patents,
     call |-> call]

process_clinical_trials(batch, asset_id, indication_id, search_type) ==
    /\ ncalls < MaxCalls
    /\ ncalls' = ncalls + 1
    /\ pre' = Snapshot
    /\ \E s \in {run_trials(trials, changes, batch,
                             asset_id, indication_id, search_type)} :
           /\ trials' = IF commit_raises(s) THEN trials ELSE commit_trials(s)
           /\ changes' = IF commit_raises(s) THEN changes ELSE s.changes
           /\ call' = [op |-> "process_clinical_trials",
                       trials |-> batch,
                       asset_id |-> asset_id,
                       indication_id |-> indication_id,
                       search_type |-> search_type,
                       outcomes |-> s.outcomes,
                       steps |-> s.steps,
                       raised |-> commit_raises(s),
                       new_count |-> s.new_count,
                       updated_count |-> s.updated_count,
                       skipped_count |-> s.skipped_count,
                       total |-> s.new_count + s.updated_count]
    /\ UNCHANGED <<publications, news_articles, patents, db, runs, nstarted,
                   collector, scheduler>>

----------------------------------------------------------------------------
(* DataProcessor.process_publications.  The session is created with        *)
(* autoflush=False and a new Publication is only add()ed: the query for    *)
(* the next record of the batch does not see it.  The INSERTs are sent at  *)
(* commit, where a second row with the same pmid violates the unique       *)
(* constraint; get_session then rolls the whole batch back and raises.     *)

Pmids == {"PM1", "PM2"}

new_publication(pub, asset_id, indication_id, search_type) ==
    [pmid |-> pub.pmid,
     asset_id |-> asset_id,
     indication_id |-> indication_id,
     title |-> PyOr(pub.title, StrV("(No title)")),
     authors |-> pub.authors,
     journal |-> pub.journal,
     publication_date |-> pub.publication_date,
     abstract |-> pub.abstract,
     doi |-> pub.doi,
     source_url |-> pub.source_url,
     search_type |-> search_type]

commit_publication(row) ==
    IF row = None THEN None
    ELSE [row EXCEPT !.publication_date = DateColumn(@)]

\* Faulty variant: a stored publication takes the incoming title
handle_publication_refresh(s, pub, asset_id, indication_id, search_type) ==
    IF pub.pmid = Missing
    THEN Note(s, "error")
    ELSE IF s.publications[pub.pmid.v] = None
         THEN Note([s EXCEPT
                      !.pending = Append(@, new_publication(
                          pub, asset_id, indication_id, search_type)),
                      !.new_count = @ + 1], "new")
         ELSE Note([s EXCEPT
                      !.publications[pub.pmid.v] =
                          [merge_ids(@, asset_id, indication_id) EXCEPT
                              !.title = PyOr(pub.title, @)]], "existing")

handle_publication(s, pub, asset_id, indication_id, search_type) ==
    IF pub.pmid = Missing
    THEN Note(s, "error")
    ELSE IF s.publications[pub.pmid.v] = None
         THEN Note([s EXCEPT
                      !.pending = Append(@, new_publication(
                          pub, asset_id, indication_id, search_type)),
                      !.new_count = @ + 1], "new")
         ELSE Note([s EXCEPT
                      !.publications[pub.pmid.v] =
                          merge_ids(@, asset_id, indication_id)], "existing")

\* handle_publication, with what it did to the stored row noted
process_publication(s, pub, asset_id, indication_id, search_type) ==
    LET t == handle_publication(s, pub, asset_id, indication_id, search_type)
        stored(x) == IF pub.pmid = Missing THEN None ELSE x.publications[pub.pmid.v]
    IN  [t EXCEPT !.steps = Append(@, [before |-> stored(s), after |-> stored(t)])]

RECURSIVE process_publications_from(_, _, _, _, _, _)
process_publications_from(s, batch, i, asset_id, indication_id, search_type) ==
    IF i > Len(batch) THEN s
    ELSE process_publications_from(
             process_publication(s, batch[i], asset_id, indication_id, search_type),
             batch, i + 1, asset_id, indication_id, search_type)

\* the unique constraint on pmid holds for the rows the commit inserts
unique_pending(s) ==
    \A i, j \in 1..Len(s.pending) :
        s.pending[i].pmid = s.pending[j].pmid => i = j

\* title and source_url are NOT NULL; asset_id and indication_id reference
\* assets.id and indications.id
publication_row_ok(row) ==
    /\ row.title # None
    /\ row.source_url # None
    /\ fk_ok(row.asset_id)
    /\ fk_ok(row.indication_id)

\* session.commit() sends the INSERTs and UPDATEs; the store accepts them all
publications_flush_ok(s) ==
    /\ unique_pending(s)
    /\ \A i \in 1..Len(s.pending) : publication_row_ok(s.pending[i])
    /\ \A m \in Pmids :
          s.publications[m] # None => publication_row_ok(s.publications[m])

flushed_publications(s) ==
    [m \in Pmids |->
        IF \E i \in 1..Len(s.pending) : s.pending[i].pmid.v = m
        THEN commit_publication(
                 s.pending[CHOOSE i \in 1..Len(s.pending) : s.pending[i].pmid.v = m])
        ELSE commit_publication(s.publications[m])]

\* The session of one call, from the table it finds to the end of the loop
run_publications(table, batch, asset_id, indication_id, search_type) ==
    process_publications_from(
        [publications |-> table, pending |-> <<>>,
         new_count |-> 0, outcomes |-> <<>>, steps |-> <<>>],
        batch, 1, asset_id, indication_id, search_type)

\* get_session: commit, or rollback and raise
committed_publications(table, s) ==
    IF publications_flush_ok(s) THEN flushed_publications(s) ELSE table

process_publications(batch, asset_id, indication_id, search_type) ==
    /\ ncalls < MaxCalls
    /\ ncalls' = ncalls + 1
    /\ pre' = Snapshot
    /\ \E s \in {run_publications(publications, batch,
                                   asset_id, indication_id, search_type)} :
         LET raised == ~publications_flush_ok(s)
         IN  /\ publications' = committed_publications(publications, s)
             /\ call' = [op |-> "process_publications",
                         publications |-> batch,
                         asset_id |-> asset_id,
                         indication_id |-> indication_id,
                         search_type |-> search_type,
                         outcomes |-> s.outcomes,
                         steps |-> s.steps,
                         raised |-> raised,
                         new_count |-> s.new_count]
    /\ UNCHANGED <<trials, changes, news_articles, patents, db, runs, nstarted,
                   collector, scheduler>>

----------------------------------------------------------------------------
(* DataProcessor.process_news: INSERT ... ON CONFLICT (url) DO NOTHING,    *)
(* executed at once for every article.  A statement that violates NOT NULL *)
(* or a foreign key raises and leaves the PostgreSQL transaction aborted:  *)
(* every later statement of the session raises too, and the COMMIT that    *)
(* get_session sends is answered by a rollback, without an exception.      *)

Urls == {"https://news/1", "https://news/2"}

new_article(article, asset_id, search_type) ==
    [asset_id |-> asset_id,
     title |-> article.title,
     source |-> article.source,
     published_at |-> article.published_at,
     url |-> article.url,
     summary |-> article.summary,
     sentiment_score |-> article.sentiment_score,
     search_type |-> search_type]

\* title and url are NOT NULL: checked on the proposed row, before the
\* conflict on url is looked for; the foreign key is checked on a row inserted
article_not_null(row) == row.title # None /\ row.url # None

\* Faulty variant: a conflicting article replaces the stored one
handle_article_upsert(s, article, asset_id, search_type) ==
    IF s.aborted
    THEN Note(s, "error")
    ELSE IF ~article_not_null(new_article(article, asset_id, search_type))
         THEN Note([s EXCEPT !.aborted = TRUE], "error")
         ELSE IF s.news_articles[article.url.v] = None
              THEN IF ~fk_ok(asset_id)
                   THEN Note([s EXCEPT !.aborted = TRUE], "error")
                   ELSE Note([s EXCEPT
                                !.news_articles[article.url.v] =
                                    new_article(article, asset_id, search_type),
                                !.count = @ + 1], "inserted")
              ELSE Note([s EXCEPT
                           !.news_articles[article.url.v] =
                               new_article(article, asset_id, search_type)],
                        "conflict")

\* lines 236-253: the try body
handle_article(s, article, asset_id, search_type) ==
    IF s.aborted
    THEN Note(s, "error")
    ELSE IF ~article_not_null(new_article(article, asset_id, search_type))
         THEN Note([s EXCEPT !.aborted = TRUE], "error")
         ELSE IF s.news_articles[article.url.v] = None
              THEN IF ~fk_ok(asset_id)
                   THEN Note([s EXCEPT !.aborted = TRUE], "error")
                   ELSE Note([s EXCEPT
                                !.news_articles[article.url.v] =
                                    new_article(article, asset_id, search_type),
                                !.count = @ + 1], "inserted")
              ELSE Note(s, "conflict")

\* handle_article, with what it did to the row of the article's url noted
process_article(s, article, asset_id, search_type) ==
    LET t == handle_article(s, article, asset_id, search_type)
        stored(x) == IF article.url = None THEN None
                     ELSE x.news_articles[article.url.v]
    IN  [t EXCEPT !.steps = Append(@, [before |-> stored(s), after |-> stored(t)])]

RECURSIVE process_news_from(_, _, _, _, _)
process_news_from(s, batch, i, asset_id, search_type) ==
    IF i > Len(batch) THEN s
    ELSE process_news_from(process_article(s, batch[i], asset_id, search_type),
                           batch, i + 1, asset_id, search_type)

\* The session of one call, from the table it finds to the end of the loop
run_news(table, batch, asset_id, search_type) ==
    process_news_from([news_articles |-> table, count |-> 0, aborted |-> FALSE,
                       outcomes |-> <<>>, steps |-> <<>>],
                      batch, 1, asset_id, search_type)

\* session.commit(): nothing of an aborted transaction is kept
committed_news(table, s) == IF s.aborted THEN table ELSE s.news_articles

\* Faulty variant: every article inserted is entered in the change log
process_news_logged(batch, asset_id, search_type) ==
    /\ ncalls < MaxCalls
    /\ ncalls' = ncalls + 1
    /\ pre' = Snapshot
    /\ \E s \in {run_news(news_articles, batch, asset_id, search_type)} :
         /\ news_articles' = committed_news(news_articles, s)
         /\ changes' = IF s.count > 0
                       THEN Append(changes, ClinicalTrialChange(
                                batch[1].url, "new_article", None, batch[1].url))
                       ELSE changes
         /\ call' = [op |-> "process_news",
                     articles |-> batch,
                     asset_id |-> asset_id,
                     search_type |-> search_type,
                     outcomes |-> s.outcomes,
                     steps |-> s.steps,
                     raised |-> FALSE,
                     count |-> s.count]
    /\ UNCHANGED <<trials, publications, patents, db, runs, nstarted,
                   collector, scheduler>>

process_news(batch, asset_id, search_type) ==
    /\ ncalls < MaxCalls
    /\ ncalls' = ncalls + 1
    /\ pre' = Snapshot
    /\ \E s \in {run_news(news_articles, batch, asset_id, search_type)} :
         /\ news_articles' = committed_news(news_articles, s)
         /\ call' = [op |-> "process_news",
                     articles |-> batch,
                     asset_id |-> asset_id,
                     search_type |-> search_type,
                     outcomes |-> s.outcomes,
                     steps |-> s.steps,
                     raised |-> FALSE,
                     count |-> s.count]
    /\ UNCHANGED <<trials, changes, publications, patents, db, runs, nstarted,
                   collector, scheduler>>

----------------------------------------------------------------------------
(* DataProcessor.process_patents: INSERT ... ON CONFLICT (patent_number)   *)
(* DO UPDATE SET title, assignee, grant_date, abstract, claims_count,      *)
(* executed at once for every patent; a statement that raises aborts the   *)
(* transaction as in process_news.                                         *)

PatentNumbers == {"US1", "US2"}

new_patent(patent, asset_id, search_type) ==
    [patent_number |-> patent.patent_number,
     asset_id |-> asset_id,
     title |-> patent.title,
     assignee |-> patent.assignee,
     filing_date |-> DateColumn(patent.filing_date),
     grant_date |-> DateColumn(patent.grant_date),
     abstract |-> patent.abstract,
     claims_count |-> patent.claims_count,
     source_url |-> patent.source_url,
     search_type |-> search_type]

\* Faulty variant: an incoming null keeps the stored value
update_patent_keep(row, patent) ==
    [row EXCEPT !.title = PyOr(patent.title, @),
                !.assignee = PyOr(patent.assignee, @),
                !.grant_date = PyOr(DateColumn(patent.grant_date), @),
                !.abstract = PyOr(patent.abstract, @),
                !.claims_count = PyOr(patent.claims_count, @)]

update_patent(row, patent) ==
    [row EXCEPT !.title = patent.title,
                !.assignee = patent.assignee,
                !.grant_date = DateColumn(patent.grant_date),
                !.abstract = patent.abstract,
                !.claims_count = patent.claims_count]

\* title and source_url are NOT NULL
patent_not_null(row) == row.title # None /\ row.source_url # None

\* Faulty variant: the update takes the asset hint and the tag as well
handle_patent_relink(s, patent, asset_id, search_type) ==
    IF patent.patent_number = Missing
    THEN Note(s, "error")
    ELSE IF s.aborted
    THEN Note(s, "error")
    ELSE IF ~patent_not_null(new_patent(patent, asset_id, search_type))
    THEN Note([s EXCEPT !.aborted = TRUE], "error")
    ELSE IF s.patents[patent.patent_number.v] = None
    THEN IF ~fk_ok(asset_id)
         THEN Note([s EXCEPT !.aborted = TRUE], "error")
         ELSE Note([s EXCEPT
                      !.patents[patent.patent_number.v] =
                          new_patent(patent, asset_id, search_type),
                      !.count = @ + 1], "inserted")
    ELSE Note([s EXCEPT
                 !.patents[patent.patent_number.v] =
                     [update_patent(@, patent) EXCEPT
                         !.asset_id = asset_id, !.search_type = search_type],
                 !.count = @ + 1], "updated")

\* lines 271-296: the try body; patent["patent_number"] raises KeyError
\* before anything is sent
handle_patent(s, patent, asset_id, search_type) ==
    IF patent.patent_number = Missing
    THEN Note(s, "error")
    ELSE IF s.aborted
    THEN Note(s, "error")
    ELSE IF ~patent_not_null(new_patent(patent, asset_id, search_type))
    THEN Note([s EXCEPT !.aborted = TRUE], "error")
    ELSE IF s.patents[patent.patent_number.v] = None
    THEN IF ~fk_ok(asset_id)
         THEN Note([s EXCEPT !.aborted = TRUE], "error")
         ELSE Note([s EXCEPT
                      !.patents[patent.patent_number.v] =
                          new_patent(patent, asset_id, search_type),
                      !.count = @ + 1], "inserted")
    ELSE Note([s EXCEPT
                 !.patents[patent.patent_number.v] = update_patent(@, patent),
                 !.count = @ + 1], "updated")

\* handle_patent, with what it did to the row of the patent number noted
process_patent(s, patent, asset_id, search_type) ==
    LET t == handle_patent(s, patent, asset_id, search_type)
        stored(x) == IF patent.patent_number = Missing THEN None
                     ELSE x.patents[patent.patent_number.v]
    IN  [t EXCEPT !.steps = Append(@, [before |-> stored(s), after |-> stored(t)])]

RECURSIVE process_patents_from(_, _, _, _, _)
process_patents_from(s, batch, i, asset_id, search_type) ==
    IF i > Len(batch) THEN s
    ELSE process_patents_from(process_patent(s, batch[i], asset_id, search_type),
                              batch, i + 1, asset_id, search_type)

\* The session of one call, from the table it finds to the end of the loop
run_patents(table, batch, asset_id, search_type) ==
    process_patents_from([patents |-> table, count |-> 0, aborted |-> FALSE,
                          outcomes |-> <<>>, steps |-> <<>>],
                         batch, 1, asset_id, search_type)

\* Faulty variant: the table mirrors the batch, a patent that the batch does
\* not carry is dropped
committed_patents_mirror(table, s) ==
    IF s.aborted THEN table
    ELSE [n \in PatentNumbers |->
             IF \E i \in DOMAIN s.steps :
                   /\ s.steps[i].after # None
                   /\ s.steps[i].after.patent_number = StrV(n)
             THEN s.patents[n] ELSE None]

\* session.commit(): nothing of an aborted transaction is kept
committed_patents(table, s) == IF s.aborted THEN table ELSE s.patents

process_patents(batch, asset_id, search_type) ==
    /\ ncalls < MaxCalls
    /\ ncalls' = ncalls + 1
    /\ pre' = Snapshot
    /\ \E s \in {run_patents(patents, batch, asset_id, search_type)} :
         /\ patents' = committed_patents(patents, s)
         /\ call' = [op |-> "process_patents",
                     patents |-> batch,
                     asset_id |-> asset_id,
                     search_type |-> search_type,
                     outcomes |-> s.outcomes,
                     steps |-> s.steps,
                     raised |-> FALSE,
                     count |-> s.count]
    /\ UNCHANGED <<trials, changes, publications, news_articles, db, runs, nstarted,
                   collector, scheduler>>

----------------------------------------------------------------------------
(* DataProcessor.link_trial_to_asset, in a session its caller commits *)

link_trial_to_asset(nct_id, asset_id) ==
    /\ ncalls < MaxCalls
    /\ ncalls' = ncalls + 1
    /\ pre' = Snapshot
    /\ trials' = IF trials[nct_id] # None
                 THEN [trials EXCEPT ![nct_id].asset_id = asset_id]
                 ELSE trials
    /\ call' = [op |-> "link_trial_to_asset",
                nct_id |-> nct_id,
                asset_id |-> asset_id,
                result |-> trials[nct_id] # None]
    /\ UNCHANGED <<changes, publications, news_articles, patents, db, runs, nstarted,
                   collector, scheduler>>

----------------------------------------------------------------------------
(* Inputs: the normalized records a collector hands over.  A trial record  *)
(* is ClinicalTrialsCollector._parse_study's mapping: dates are datetimes, *)
(* the title is a string (possibly empty), everything else may be None.    *)

Markers ==
    {None} \cup {DateTimeV(d, h) : d \in 1..MaxDay, h \in 0..MaxHour}

\* What the registry may say about a trial, apart from its last-update date
PayloadA ==
    [status |-> StrV("RECRUITING"), phase |-> StrV("PHASE2"),
     enrollment |-> IntV(100), completion_date |-> None,
     title |-> StrV("Title A"), start_date |-> DateTimeV(1, 0),
     sponsor |-> StrV("Sponsor A"), primary_endpoint |-> StrV("Endpoint A"),
     summary |-> StrV("Summary A"), raw_data |-> StrV("{study A}")]

\* the status moved on, the title was edited, the endpoint is gone
PayloadB ==
    [status |-> StrV("COMPLETED"), phase |-> StrV("PHASE2"),
     enrollment |-> IntV(100), completion_date |-> None,
     title |-> StrV("Title B"), start_date |-> DateTimeV(1, 0),
     sponsor |-> StrV("Sponsor A"), primary_endpoint |-> None,
     summary |-> StrV("Summary B"), raw_data |-> StrV("{study B}")]

\* a thin record: no phase, no sponsor, an empty title; a completion date
PayloadC ==
    [status |-> StrV("COMPLETED"), phase |-> None,
     enrollment |-> IntV(200), completion_date |-> DateTimeV(2, 0),
     title |-> StrV(""), start_date |-> None,
     sponsor |-> None, primary_endpoint |-> StrV("Endpoint C"),
     summary |-> None, raw_data |-> None]

TrialPayloads == {PayloadA, PayloadB, PayloadC}

TrialRecord(nct, marker, p) ==
    [nct_id |-> StrV(nct),
     title |-> p.title, status |-> p.status, phase |-> p.phase,
     start_date |-> p.start_date, completion_date |-> p.completion_date,
     enrollment |-> p.enrollment, sponsor |-> p.sponsor,
     primary_endpoint |-> p.primary_endpoint, summary |-> p.summary,
     source_url |-> StrV("https://clinicaltrials.gov/study/" \o nct),
     last_updated |-> marker, raw_data |-> p.raw_data]

\* a mapping without "nct_id"
MalformedTrial ==
    [TrialRecord("NCT0001", DateTimeV(1, 0), PayloadA) EXCEPT !.nct_id = Missing]

TrialRecords ==
    {TrialRecord(n, m, p) : n \in NctIds, m \in Markers, p \in TrialPayloads}
        \cup {MalformedTrial}

PayloadOf(r) == [f \in {"status", "phase", "enrollment", "completion_date",
                        "title", "start_date", "sponsor", "primary_endpoint",
                        "summary", "raw_data"} |-> r[f]]

\* Two records of one batch differ in at most one of identifier, marker, payload
Akin(r1, r2) ==
    \/ r1.nct_id = r2.nct_id /\ r1.last_updated = r2.last_updated
    \/ r1.nct_id = r2.nct_id /\ PayloadOf(r1) = PayloadOf(r2)
    \/ r1.last_updated = r2.last_updated /\ PayloadOf(r1) = PayloadOf(r2)

RECURSIVE SeqsUpTo(_, _)
SeqsUpTo(S, n) ==
    IF n = 0 THEN {<<>>}
    ELSE LET shorter == SeqsUpTo(S, n - 1)
         IN  shorter \cup {Append(q, x) : q \in shorter, x \in S}

TrialBatches ==
    {b \in SeqsUpTo(TrialRecords, MaxBatch) :
        \A i, j \in 1..Len(b) : Akin(b[i], b[j])}

IdHints == {None} \cup Ids

\* The search-type tag the callers pass with a pair of links
AxisOf(asset_id, indication_id) ==
    IF asset_id = None THEN StrV("disease_discovery")
    ELSE IF indication_id = None THEN StrV("asset") ELSE StrV("indication")

Hints ==
    {[asset_id |-> a, indication_id |-> i, search_type |-> AxisOf(a, i)] :
        a \in IdHints, i \in IdHints}

\* The two axes of run_collection_job
TrialAxes ==
    {h \in Hints : (h.asset_id = None) # (h.indication_id = None)
                   /\ h.asset_id \in {None, IntV(1)}
                   /\ h.indication_id \in {None, IntV(1)}}

\* Spec: every record carries the first payload, at midnight of some day
PlainTrialBatches ==
    {b \in TrialBatches :
        \A i \in 1..Len(b) : /\ PayloadOf(b[i]) = PayloadA
                              /\ b[i].last_updated # None
                              /\ b[i].last_updated.h = 0}

PubRecord(pmid, title) ==
    [pmid |-> StrV(pmid), title |-> title,
     authors |-> StrV("Doe J; Roe R"), journal |-> StrV("Journal"),
     publication_date |-> DateTimeV(1, 0), abstract |-> None,
     doi |-> None,
     source_url |-> StrV("https://pubmed.ncbi.nlm.nih.gov/" \o pmid \o "/")]

PubRecords == {PubRecord(m, t) : m \in Pmids, t \in {StrV("Paper A"), StrV("")}}
PubBatches == SeqsUpTo(PubRecords, MaxBatch)

NewsRecord(url, title) ==
    [title |-> title, source |-> StrV("Newswire"),
     published_at |-> DateTimeV(1, 0), url |-> StrV(url),
     summary |-> None, sentiment_score |-> None]

NewsRecords ==
    {NewsRecord(u, t) : u \in Urls, t \in {StrV("Headline A"), StrV("Headline B")}}
NewsBatches == SeqsUpTo(NewsRecords, MaxBatch)

\* a search-result stub, and the same patent with its detail page read
PatentStub(number) ==
    [patent_number |-> StrV(number), title |-> StrV("Patent title"),
     assignee |-> None, filing_date |-> DateTimeV(1, 0), grant_date |-> None,
     abstract |-> None, claims_count |-> None,
     source_url |-> StrV("https://patents.google.com/patent/" \o number)]

PatentDetail(number) ==
    [PatentStub(number) EXCEPT !.filing_date = None,
                               !.assignee = StrV("Assignee"),
                               !.grant_date = DateTimeV(2, 0),
                               !.abstract = StrV("Abstract"),
                               !.claims_count = IntV(20)]

PatentRecords == {PatentStub(n) : n \in PatentNumbers}
                     \cup {PatentDetail(n) : n \in PatentNumbers}
PatentBatches == SeqsUpTo(PatentRecords, MaxBatch)

----------------------------------------------------------------------------
(* BaseCollector._make_request under tenacity's retry, and the paging loop  *)
(* of ClinicalTrialsCollector (collect, _collect_with_params).  A request   *)
(* fails when session.request or raise_for_status raises.                   *)

MaxPages == 2
MaxPageSize == 2

\* kwargs.get("max_results", 10000)
max_results == 10000

\* Faulty variant: the retry has no stop condition
stop_never(attempt_number) == FALSE

\* stop=stop_after_attempt(3)
stop_after_attempt(attempt_number) == attempt_number >= 3

\* One pass of tenacity's loop around the body of _make_request: the
\* response is returned, or the exception is kept and the stop condition
\* decides between another attempt and RetryError
after_attempt(request, outcome) ==
    LET attempts == Append(request.attempts, outcome)
    IN  [attempts |-> attempts,
         status |-> IF outcome = "ok" THEN "returned"
                    ELSE IF stop_after_attempt(Len(attempts)) THEN "raised"
                    ELSE "sending"]

\* _make_request is called: no attempt made yet
new_request == [attempts |-> <<>>, status |-> "sending"]

\* The studies of a page of the registry: with an nctId, or without one
Studies == {[nctId |-> StrV(n)] : n \in NctIds} \cup {[nctId |-> None]}

\* _parse_study: None for a study without nctId
parse_study(study) ==
    IF ~Truthy(study.nctId) THEN None
    ELSE TrialRecord(study.nctId.v, DateTimeV(1, 0), PayloadA)

\* lines 213-216: the trials of a page, in order, those that did not parse
\* left out
RECURSIVE parse_studies(_)
parse_studies(studies) ==
    IF studies = <<>> THEN <<>>
    ELSE LET trial == parse_study(Head(studies))
         IN  (IF trial = None THEN <<>> ELSE <<trial>>)
                 \o parse_studies(Tail(studies))

\* What response.json() gives for a page; the last page has no nextPageToken
Pages(last) ==
    {[studies |-> st, nextPageToken |-> tok] :
        st \in SeqsUpTo(Studies, MaxPageSize),
        tok \in IF last THEN {None} ELSE {None, StrV("next")}}

\* No collector has been called
IdleCollector ==
    [pc |-> "idle", trials |-> <<>>, page_token |-> None, requests |-> <<>>,
     pages |-> <<>>, left |-> "none", before |-> 0]

\* `while len(trials) < max_results:` and the call of _make_request
next_page(c) ==
    IF Len(c.trials) < max_results
    THEN [c EXCEPT !.pc = "request", !.requests = Append(@, new_request)]
    ELSE [c EXCEPT !.pc = "returned", !.left = "full"]

\* lines 164-170: trials = [], page_token = None, the first pass of the loop
collect_with_params ==
    /\ collector.pc = "idle"
    /\ collector' = next_page([IdleCollector EXCEPT !.before = ncalls])
    /\ UNCHANGED <<trials, changes, publications, news_articles, patents,
                   pre, call, ncalls, db, runs, nstarted, scheduler>>

\* The request the collector is waiting for
Request(c) == c.requests[Len(c.requests)]

\* self.session.request(...), response.raise_for_status(): one attempt
make_request ==
    /\ collector.pc = "request"
    /\ Request(collector).status = "sending"
    /\ \E outcome \in {"ok", "error"} :
          collector' = [collector EXCEPT
              !.requests[Len(collector.requests)] = after_attempt(@, outcome)]
    /\ UNCHANGED <<trials, changes, publications, news_articles, patents,
                   pre, call, ncalls, db, runs, nstarted, scheduler>>

\* Faulty variant: a failed page request discards the trials collected so far
on_error_discard(c) ==
    [c EXCEPT !.pc = "returned", !.left = "error", !.trials = <<>>]

\* `except Exception as e: logger.error(...); break`, then `return trials`
on_error(c) == [c EXCEPT !.pc = "returned", !.left = "error"]

\* _make_request raised RetryError
request_failed ==
    /\ collector.pc = "request"
    /\ Request(collector).status = "raised"
    /\ collector' = on_error(collector)
    /\ UNCHANGED <<trials, changes, publications, news_articles, patents,
                   pre, call, ncalls, db, runs, nstarted, scheduler>>

\* lines 209-220: the studies of the page are parsed and appended, the loop
\* ends on a page without studies or without nextPageToken
take_page(c, page) ==
    IF page.studies = <<>>
    THEN [c EXCEPT !.pc = "returned", !.left = "empty",
                   !.pages = Append(@, page)]
    ELSE LET d == [c EXCEPT !.trials = @ \o parse_studies(page.studies),
                            !.page_token = page.nextPageToken,
                            !.pages = Append(@, page)]
         IN  IF ~Truthy(page.nextPageToken)
             THEN [d EXCEPT !.pc = "returned", !.left = "last"]
             ELSE next_page(d)

\* _make_request returned a response: data = response.json()
page_fetched ==
    /\ collector.pc = "request"
    /\ Request(collector).status = "returned"
    /\ \/ \E page \in Pages(Len(collector.pages) + 1 = MaxPages) :
             collector' = take_page(collector, page)
       \/ collector' = on_error(collector)      \* response.json() raises
    /\ UNCHANGED <<trials, changes, publications, news_articles, patents,
                   pre, call, ncalls, db, runs, nstarted, scheduler>>

\* run_collection_job lines 38-41: the trials the collector returned go to
\* process_clinical_trials
process_collected ==
    /\ collector.pc = "returned"
    /\ ncalls = collector.before
    /\ process_clinical_trials(collector.trials, IntV(1), None, StrV("asset"))

NextCollect ==
    \/ collect_with_params
    \/ make_request
    \/ request_failed
    \/ page_fetched
    \/ process_collected

----------------------------------------------------------------------------
(* services/scheduler.py: the module-level _scheduler, start_scheduler and  *)
(* stop_scheduler.  `made` holds every BackgroundScheduler created so far, *)
(* `calls` the calls made so far.                                          *)

MaxLifecycle == 7

\* _scheduler: BackgroundScheduler | None = None
NoScheduler == [_scheduler |-> None, made |-> <<>>, calls |-> <<>>]

\* BackgroundScheduler()
BackgroundScheduler == [running |-> FALSE, jobs |-> <<>>]

\* add_job(..., id=..., replace_existing=True): a job with this id is replaced
add_job(sched, id) ==
    [sched EXCEPT !.jobs = SelectSeq(@, LAMBDA j : j # id) \o <<id>>]

\* The schedulers that are running
Live(s) == {i \in DOMAIN s.made : s.made[i].running}

\* Faulty variant: no check of _scheduler, a scheduler is created at each call
started_anew(s) ==
    [s EXCEPT
        !._scheduler = IntV(Len(s.made) + 1),
        !.made = Append(@, [add_job(BackgroundScheduler, "data_collection")
                               EXCEPT !.running = TRUE])]

\* lines 96-111: the early return, or a new scheduler with its job, started
started(s) ==
    IF s._scheduler # None THEN s
    ELSE [s EXCEPT
            !._scheduler = IntV(Len(s.made) + 1),
            !.made = Append(@, [add_job(BackgroundScheduler, "data_collection")
                                   EXCEPT !.running = TRUE])]

\* lines 121-126: the early return, or shutdown(wait=False) and None
stopped(s) ==
    IF s._scheduler = None THEN s
    ELSE [s EXCEPT !._scheduler = None,
                   !.made[s._scheduler.v].running = FALSE]

start_scheduler ==
    /\ Len(scheduler.calls) < MaxLifecycle
    /\ scheduler' = [started(scheduler) EXCEPT
                        !.calls = Append(@, "start_scheduler")]
    /\ UNCHANGED <<trials, changes, publications, news_articles, patents,
                   pre, call, ncalls, db, runs, nstarted, collector>>

stop_scheduler ==
    /\ Len(scheduler.calls) < MaxLifecycle
    /\ scheduler' = [stopped(scheduler) EXCEPT
                        !.calls = Append(@, "stop_scheduler")]
    /\ UNCHANGED <<trials, changes, publications, news_articles, patents,
                   pre, call, ncalls, db, runs, nstarted, collector>>

NextScheduler == start_scheduler \/ stop_scheduler

----------------------------------------------------------------------------
(* Specifications *)

NoCall == [op |-> "none"]

\* Calls that overlap in time: each is one process (the scheduler's job, a
\* run of scripts/run_collectors.py) with its own session and transaction
RunIds == 1..MaxRuns

\* The tables as the server holds them.  A table is the list of its committed
\* rows: that a natural key has one row is the work of the unique constraint
EmptyStore ==
    [trials |-> <<>>, changes |-> <<>>, publications |-> <<>>,
     news_articles |-> <<>>, patents |-> <<>>]

\* get_session(): a call enters its with-block
begin_run(op, batch, asset_id, indication_id, search_type) ==
    [op |-> op, batch |-> batch, asset_id |-> asset_id,
     indication_id |-> indication_id, search_type |-> search_type,
     pc |-> 1, phase |-> "query",
     inserted |-> <<>>, pending |-> <<>>, dirty |-> <<>>, updated |-> <<>>,
     events |-> <<>>, failed |-> FALSE, outcomes |-> <<>>,
     new_count |-> 0, updated_count |-> 0, skipped_count |-> 0,
     kept |-> FALSE, result |-> "running"]

\* no call has run in this process yet
Idle == [begin_run("idle", <<>>, None, None, None) EXCEPT !.result = "none"]

Init ==
    /\ trials = EmptyTable(NctIds)
    /\ changes = <<>>
    /\ publications = EmptyTable(Pmids)
    /\ news_articles = EmptyTable(Urls)
    /\ patents = EmptyTable(PatentNumbers)
    /\ pre = [trials |-> EmptyTable(NctIds), changes |-> <<>>,
              publications |-> EmptyTable(Pmids),
              news_articles |-> EmptyTable(Urls),
              patents |-> EmptyTable(PatentNumbers),
              call |-> NoCall]
    /\ call = NoCall
    /\ ncalls = 0
    /\ db = EmptyStore
    /\ runs = [r \in RunIds |-> Idle]
    /\ nstarted = 0
    /\ collector = IdleCollector
    /\ scheduler = NoScheduler

\* One step of a collection run (run_collection_job, run_collectors.main)
RunTrials ==
    /\ ncalls < MaxFresh
    /\ \E b \in PlainTrialBatches, h \in Hints :
          process_clinical_trials(b, h.asset_id, h.indication_id, h.search_type)

RunPublications ==
    /\ ncalls < MaxFresh
    /\ \E b \in PubBatches, h \in Hints :
          process_publications(b, h.asset_id, h.indication_id, h.search_type)

RunNews ==
    /\ ncalls < MaxFresh
    /\ \E b \in NewsBatches, a \in IdHints :
          process_news(b, a, AxisOf(a, None))

RunPatents ==
    /\ ncalls < MaxFresh
    /\ \E b \in PatentBatches, a \in IdHints :
          process_patents(b, a, AxisOf(a, None))

LinkTrial ==
    /\ ncalls < MaxFresh
    /\ \E n \in NctIds, a \in Ids : link_trial_to_asset(n, a)

Next == RunTrials \/ RunPublications \/ RunNews \/ RunPatents \/ LinkTrial

Spec == Init /\ [][Next]_vars

\* Trials only, with every payload and marker
CollectTrials ==
    /\ ncalls < MaxFresh
    /\ \E b \in TrialBatches, h \in TrialAxes :
          process_clinical_trials(b, h.asset_id, h.indication_id, h.search_type)

\* The same batch is submitted again with the same linkage hints
ResubmitTrials ==
    /\ call.op = "process_clinical_trials"
    /\ process_clinical_trials(call.trials, call.asset_id, call.indication_id,
                               call.search_type)

NextTrials == CollectTrials \/ ResubmitTrials

SpecTrials == Init /\ [][NextTrials]_vars

\* Batches with records the loop or the store rejects: a record without its
\* natural key, a record whose required title is null, and calls whose asset
\* hint is the id of no asset
UntitledTrial ==
    [TrialRecord("NCT0002", DateTimeV(1, 0), PayloadA) EXCEPT !.title = None]

FaultTrialRecords ==
    {TrialRecord(n, DateTimeV(1, 0), PayloadA) : n \in NctIds}
        \cup {MalformedTrial, UntitledTrial}

MalformedPub == [PubRecord("PM1", StrV("Paper A")) EXCEPT !.pmid = Missing]

FaultPubRecords ==
    {PubRecord(m, StrV("Paper A")) : m \in Pmids} \cup {MalformedPub}

\* a mapping without "url": article.get("url") is None
UnlocatedArticle ==
    [NewsRecord("https://news/1", StrV("Headline A")) EXCEPT !.url = None]

FaultNewsRecords ==
    {NewsRecord(u, StrV("Headline A")) : u \in Urls} \cup {UnlocatedArticle}

MalformedPatent == [PatentStub("US1") EXCEPT !.patent_number = Missing]

UntitledPatent == [PatentStub("US2") EXCEPT !.title = None]

FaultPatentRecords ==
    {PatentStub(n) : n \in PatentNumbers} \cup {MalformedPatent, UntitledPatent}

FaultHints == {None, IntV(1), DanglingId}

FaultyTrials ==
    /\ ncalls < MaxFresh
    /\ \E b \in SeqsUpTo(FaultTrialRecords, MaxBatch), a \in FaultHints :
          process_clinical_trials(b, a, None, AxisOf(a, None))

FaultyPublications ==
    /\ ncalls < MaxFresh
    /\ \E b \in SeqsUpTo(FaultPubRecords, MaxBatch), a \in FaultHints :
          process_publications(b, a, None, AxisOf(a, None))

FaultyNews ==
    /\ ncalls < MaxFresh
    /\ \E b \in SeqsUpTo(FaultNewsRecords, MaxBatch), a \in FaultHints :
          process_news(b, a, AxisOf(a, None))

FaultyPatents ==
    /\ ncalls < MaxFresh
    /\ \E b \in SeqsUpTo(FaultPatentRecords, MaxBatch), a \in FaultHints :
          process_patents(b, a, AxisOf(a, None))

NextFaults == FaultyTrials \/ FaultyPublications \/ FaultyNews \/ FaultyPatents

SpecFaults == Init /\ [][NextFaults]_vars

----------------------------------------------------------------------------
(* Overlapping calls.  Each statement a call sends is one step; the server  *)
(* runs the transactions at READ COMMITTED (the PostgreSQL default; nothing *)
(* in connection.py changes it): a query sees the committed rows and the    *)
(* rows its own transaction wrote, an INSERT of a key that another open     *)
(* transaction has inserted waits for that transaction to end, and an       *)
(* INSERT of a key that a committed row carries violates the unique         *)
(* constraint of models.py.                                                 *)

Running(r) == runs[r].result = "running"

Matching(rows, field, key) == {i \in DOMAIN rows : rows[i][field] = key}

\* Faulty variant: the column has no unique constraint
unique_violation_off(rows, field, key) == FALSE

\* unique=True on nct_id, pmid, url and patent_number
unique_violation(rows, field, key) == Matching(rows, field, key) # {}

\* the table and the natural key of each operation
TableOf(op) ==
    CASE op = "process_clinical_trials" -> "trials"
      [] op = "process_publications" -> "publications"
      [] op = "process_news" -> "news_articles"
      [] op = "process_patents" -> "patents"

KeyOf(op) ==
    CASE op = "process_clinical_trials" -> "nct_id"
      [] op = "process_publications" -> "pmid"
      [] op = "process_news" -> "url"
      [] op = "process_patents" -> "patent_number"

\* The record a running call is at
Current(r) == runs[r].batch[runs[r].pc]

AtRecord(r, op) ==
    /\ runs[r].op = op
    /\ Running(r)
    /\ runs[r].pc <= Len(runs[r].batch)

\* Run q holds the row lock of a key: it inserted or updated the row and has
\* not ended its transaction
Holds(q, op, key) ==
    /\ runs[q].op = op
    /\ Running(q)
    /\ \/ Matching(runs[q].inserted, KeyOf(op), key) # {}
       \/ \E i \in DOMAIN runs[q].updated : runs[q].updated[i].key = key

\* The key the next statement of run q writes, when it is at a write
Wants(q, op, key) ==
    /\ AtRecord(q, op)
    /\ ~runs[q].failed
    /\ Current(q)[KeyOf(op)] = key
    /\ op = "process_clinical_trials" => runs[q].phase = "insert"
    /\ op # "process_publications"

Blocked(r, op, key) == \E q \in RunIds \ {r} : Holds(q, op, key)

\* r waits for q and q waits for r: the server's deadlock detector ends one
\* of the two statements with an error
Deadlocked(r, op, key) ==
    \E q \in RunIds \ {r} :
        /\ Holds(q, op, key)
        /\ AtRecord(q, op)
        /\ Wants(q, op, Current(q)[KeyOf(op)])
        /\ Holds(r, op, Current(q)[KeyOf(op)])

\* Deferred UPDATEs of a session: each names the row by key, the columns
\* that changed and the row the session holds
RECURSIVE apply_dirty(_, _, _)
apply_dirty(rows, field, dirty) ==
    IF dirty = <<>> THEN rows
    ELSE LET d == Head(dirty)
             upd == [i \in DOMAIN rows |->
                        IF rows[i][field] = d.key
                        THEN [f \in DOMAIN rows[i] |->
                                 IF f \in d.fields THEN d.row[f] ELSE rows[i][f]]
                        ELSE rows[i]]
         IN  apply_dirty(upd, field, Tail(dirty))

\* .first() of a query by key, as run r sees the table
Visible(r, op, key) ==
    LET all == apply_dirty(runs[r].inserted \o db[TableOf(op)], KeyOf(op),
                           runs[r].dirty)
        hits == Matching(all, KeyOf(op), key)
    IN  IF hits = {} THEN None
        ELSE all[CHOOSE i \in hits : \A j \in hits : i <= j]

Changed(old, new) == {f \in DOMAIN new : new[f] # old[f]}

\* next record of the loop
Advance(run, tag) ==
    [run EXCEPT !.pc = @ + 1, !.phase = "query", !.outcomes = Append(@, tag)]

\* A statement fails inside the transaction: what the session wrote so far
\* is rolled back with it, and the session accepts no further statement
Fail(run, tag) ==
    [Advance(run, tag) EXCEPT !.failed = TRUE, !.inserted = <<>>,
                              !.dirty = <<>>, !.updated = <<>>,
                              !.events = <<>>, !.pending = <<>>]

\* line 52: the query by nct_id, and for a row found lines 84-128
trial_query(r) ==
    /\ AtRecord(r, "process_clinical_trials")
    /\ runs[r].phase = "query"
    /\ LET run == runs[r]
           trial == Current(r)
           existing == Visible(r, run.op, trial.nct_id)
           view == [n \in NctIds |-> IF StrV(n) = trial.nct_id THEN existing ELSE None]
           t == update_trial(session_on(view, <<>>), trial, run.asset_id,
                             run.indication_id)
           row == t.trials[trial.nct_id.v]
       IN  runs' = [runs EXCEPT ![r] =
             IF run.failed THEN Advance(run, "error")
             ELSE IF existing = None THEN [run EXCEPT !.phase = "insert"]
             ELSE [Advance(run, t.outcomes[1]) EXCEPT
                     !.dirty = IF row = existing THEN @
                               ELSE Append(@, [key |-> trial.nct_id,
                                               fields |-> Changed(existing, row),
                                               row |-> row]),
                     !.events = @ \o t.changes,
                     !.updated_count = @ + t.updated_count,
                     !.skipped_count = @ + t.skipped_count]]
    /\ UNCHANGED <<db, nstarted>>
    /\ UNCHANGED callvars

\* Faulty variant: the INSERT succeeds and no new_trial row is added
trial_flush_unseeded(r) ==
    /\ AtRecord(r, "process_clinical_trials")
    /\ runs[r].phase = "insert"
    /\ LET run == runs[r]
           trial == Current(r)
       IN  /\ ~Blocked(r, run.op, trial.nct_id)
           /\ runs' = [runs EXCEPT ![r] =
                IF unique_violation(db.trials, "nct_id", trial.nct_id)
                THEN Fail(run, "rejected")
                ELSE [Advance(run, "new") EXCEPT
                        !.inserted = Append(@, new_trial(trial, run.asset_id,
                                        run.indication_id, run.search_type)),
                        !.new_count = @ + 1]]
    /\ UNCHANGED <<db, nstarted>>
    /\ UNCHANGED callvars

\* lines 56-82: session.add, session.flush (the INSERT), the new_trial event
trial_flush(r) ==
    /\ AtRecord(r, "process_clinical_trials")
    /\ runs[r].phase = "insert"
    /\ LET run == runs[r]
           trial == Current(r)
       IN  /\ ~Blocked(r, run.op, trial.nct_id)
           /\ runs' = [runs EXCEPT ![r] =
                IF unique_violation(db.trials, "nct_id", trial.nct_id)
                THEN Fail(run, "rejected")
                ELSE [Advance(run, "new") EXCEPT
                        !.inserted = Append(@, new_trial(trial, run.asset_id,
                                        run.indication_id, run.search_type)),
                        !.events = Append(@, ClinicalTrialChange(
                                        trial.nct_id, "new_trial", None,
                                        trial.nct_id)),
                        !.new_count = @ + 1]]
    /\ UNCHANGED <<db, nstarted>>
    /\ UNCHANGED callvars

\* the INSERT of line 75 is chosen as the victim of a deadlock
trial_deadlock(r) ==
    /\ AtRecord(r, "process_clinical_trials")
    /\ runs[r].phase = "insert"
    /\ Deadlocked(r, runs[r].op, Current(r).nct_id)
    /\ runs' = [runs EXCEPT ![r] = Fail(runs[r], "deadlock")]
    /\ UNCHANGED <<db, nstarted>>
    /\ UNCHANGED callvars

\* process_publications lines 191-215: the query by pmid, then session.add
\* of a row that stays pending until the commit, or the merge of the links
publication_step(r) ==
    /\ AtRecord(r, "process_publications")
    /\ LET run == runs[r]
           pub == Current(r)
           existing == Visible(r, run.op, pub.pmid)
           merged == merge_ids(existing, run.asset_id, run.indication_id)
       IN  runs' = [runs EXCEPT ![r] =
             IF existing = None
             THEN [Advance(run, "new") EXCEPT
                     !.pending = Append(@, new_publication(pub, run.asset_id,
                                     run.indication_id, run.search_type)),
                     !.new_count = @ + 1]
             ELSE [Advance(run, "existing") EXCEPT
                     !.dirty = IF merged = existing THEN @
                               ELSE Append(@, [key |-> pub.pmid,
                                               fields |-> Changed(existing, merged),
                                               row |-> merged])]]
    /\ UNCHANGED <<db, nstarted>>
    /\ UNCHANGED callvars

\* process_news lines 237-251: INSERT ... ON CONFLICT (url) DO NOTHING.  The
\* conflict is found by the unique index on url
news_insert(r) ==
    /\ AtRecord(r, "process_news")
    /\ LET run == runs[r]
           article == Current(r)
       IN  /\ run.failed \/ ~Blocked(r, run.op, article.url)
           /\ runs' = [runs EXCEPT ![r] =
                IF run.failed THEN Advance(run, "error")
                ELSE IF unique_violation(run.inserted \o db.news_articles,
                                         "url", article.url)
                THEN Advance(run, "conflict")
                ELSE [Advance(run, "new") EXCEPT
                        !.inserted = Append(@, new_article(article, run.asset_id,
                                                           run.search_type)),
                        !.new_count = @ + 1]]
    /\ UNCHANGED <<db, nstarted>>
    /\ UNCHANGED callvars

\* the INSERT of line 249 is chosen as the victim of a deadlock; the except
\* of line 252 catches the error, the transaction stays aborted
news_deadlock(r) ==
    /\ AtRecord(r, "process_news")
    /\ ~runs[r].failed
    /\ Deadlocked(r, runs[r].op, Current(r).url)
    /\ runs' = [runs EXCEPT ![r] = Fail(runs[r], "deadlock")]
    /\ UNCHANGED <<db, nstarted>>
    /\ UNCHANGED callvars

\* process_patents lines 272-294: INSERT ... ON CONFLICT (patent_number) DO
\* UPDATE.  The update locks the row until the transaction ends
patent_upsert(r) ==
    /\ AtRecord(r, "process_patents")
    /\ LET run == runs[r]
           patent == Current(r)
           number == patent.patent_number
           own == Matching(run.inserted, "patent_number", number)
       IN  /\ run.failed \/ ~Blocked(r, run.op, number)
           /\ runs' = [runs EXCEPT ![r] =
                IF run.failed THEN Advance(run, "error")
                ELSE IF own # {}
                THEN [Advance(run, "updated") EXCEPT
                        !.inserted = [i \in DOMAIN @ |->
                                         IF i \in own THEN update_patent(@[i], patent)
                                         ELSE @[i]],
                        !.new_count = @ + 1]
                ELSE IF unique_violation(db.patents, "patent_number", number)
                THEN [Advance(run, "updated") EXCEPT
                        !.updated = Append(@, [key |-> number, patent |-> patent]),
                        !.new_count = @ + 1]
                ELSE [Advance(run, "new") EXCEPT
                        !.inserted = Append(@, new_patent(patent, run.asset_id,
                                                          run.search_type)),
                        !.new_count = @ + 1]]
    /\ UNCHANGED <<db, nstarted>>
    /\ UNCHANGED callvars

\* the statement of line 293 is chosen as the victim of a deadlock
patent_deadlock(r) ==
    /\ AtRecord(r, "process_patents")
    /\ ~runs[r].failed
    /\ Deadlocked(r, runs[r].op, Current(r).patent_number)
    /\ runs' = [runs EXCEPT ![r] = Fail(runs[r], "deadlock")]
    /\ UNCHANGED <<db, nstarted>>
    /\ UNCHANGED callvars

\* The INSERTs of the pending rows, one after the other
RECURSIVE flush_pending(_, _, _)
flush_pending(rows, field, pending) ==
    IF pending = <<>> THEN [rows |-> rows, ok |-> TRUE]
    ELSE IF unique_violation(rows, field, Head(pending)[field])
         THEN [rows |-> rows, ok |-> FALSE]
         ELSE flush_pending(Append(rows, Head(pending)), field, Tail(pending))

RECURSIVE apply_updates(_, _)
apply_updates(rows, updated) ==
    IF updated = <<>> THEN rows
    ELSE apply_updates(
             [i \in DOMAIN rows |->
                 IF rows[i].patent_number = Head(updated).key
                 THEN update_patent(rows[i], Head(updated).patent)
                 ELSE rows[i]],
             Tail(updated))

MapRows(F(_), rows) == [i \in DOMAIN rows |-> F(rows[i])]

\* The table of a call as its commit leaves it
committed_rows(run) ==
    LET table == db[TableOf(run.op)]
        field == KeyOf(run.op)
    IN  CASE run.op = "process_clinical_trials" ->
               MapRows(commit_trial,
                       apply_dirty(table \o run.inserted, field, run.dirty))
          [] run.op = "process_publications" ->
               MapRows(commit_publication,
                       flush_pending(apply_dirty(table, field, run.dirty),
                                     field, run.pending).rows)
          [] run.op = "process_news" -> table \o run.inserted
          [] run.op = "process_patents" ->
               apply_updates(table, run.updated) \o run.inserted

\* connection.py lines 44-47: session.commit() raises in a session whose
\* flush failed and when the server rejects a pending INSERT; a commit sent
\* in a transaction that a failed Core statement aborted is answered with a
\* rollback and raises nothing
commit_fails(run) ==
    CASE run.op = "process_clinical_trials" -> run.failed
      [] run.op = "process_publications" ->
           ~flush_pending(db.publications, "pmid", run.pending).ok
      [] OTHER -> FALSE

\* The end of the with-block and the return of the call
session_commit(r) ==
    /\ Running(r)
    /\ runs[r].pc > Len(runs[r].batch)
    /\ LET run == runs[r]
           kept == ~commit_fails(run) /\ ~run.failed
       IN  /\ db' = IF kept
                    THEN [db EXCEPT ![TableOf(run.op)] = committed_rows(run),
                                    !.changes = @ \o run.events]
                    ELSE db
           /\ runs' = [runs EXCEPT ![r] =
                [run EXCEPT !.result = IF commit_fails(run) THEN "raised"
                                       ELSE "returned",
                            !.kept = kept]]
    /\ UNCHANGED nstarted
    /\ UNCHANGED callvars

\* A call starts while the other is idle, has ended, or is inside the same
\* operation: calls on different tables do not meet
start_run(r, op, batch, asset_id, indication_id, search_type) ==
    /\ nstarted < MaxStarts
    /\ ~Running(r)
    /\ \A q \in RunIds \ {r} : Running(q) => runs[q].op = op
    /\ nstarted' = nstarted + 1
    /\ runs' = [runs EXCEPT ![r] =
                   begin_run(op, batch, asset_id, indication_id, search_type)]
    /\ UNCHANGED db
    /\ UNCHANGED callvars

\* Batches of overlapping calls: one record per key, no key twice
Distinct(b, field) == \A i, j \in DOMAIN b : b[i][field] = b[j][field] => i = j

RaceTrialBatches ==
    {b \in SeqsUpTo({TrialRecord(n, DateTimeV(1, 0), PayloadA) : n \in NctIds},
                    MaxBatch) : b # <<>> /\ Distinct(b, "nct_id")}

RacePubBatches ==
    {b \in SeqsUpTo({PubRecord(m, StrV("Paper A")) : m \in Pmids}, MaxBatch) :
        b # <<>> /\ Distinct(b, "pmid")}

RaceNewsBatches ==
    {b \in SeqsUpTo({NewsRecord(u, StrV("Headline A")) : u \in Urls}, MaxBatch) :
        b # <<>> /\ Distinct(b, "url")}

RacePatentBatches ==
    {b \in SeqsUpTo(PatentRecords, MaxBatch) :
        b # <<>> /\ Distinct(b, "patent_number")}

NextRace ==
    \/ \E r \in RunIds, b \in RaceTrialBatches, h \in TrialAxes :
          start_run(r, "process_clinical_trials", b, h.asset_id,
                    h.indication_id, h.search_type)
    \/ \E r \in RunIds, b \in RacePubBatches, h \in TrialAxes :
          start_run(r, "process_publications", b, h.asset_id, h.indication_id,
                    h.search_type)
    \/ \E r \in RunIds, b \in RaceNewsBatches, a \in {None, IntV(1)} :
          start_run(r, "process_news", b, a, None, AxisOf(a, None))
    \/ \E r \in RunIds, b \in RacePatentBatches, a \in {None, IntV(1)} :
          start_run(r, "process_patents", b, a, None, AxisOf(a, None))
    \/ \E r \in RunIds : trial_query(r)
    \/ \E r \in RunIds : trial_flush(r)
    \/ \E r \in RunIds : trial_deadlock(r)
    \/ \E r \in RunIds : publication_step(r)
    \/ \E r \in RunIds : news_insert(r)
    \/ \E r \in RunIds : news_deadlock(r)
    \/ \E r \in RunIds : patent_upsert(r)
    \/ \E r \in RunIds : patent_deadlock(r)
    \/ \E r \in RunIds : session_commit(r)

SpecRace == Init /\ [][NextRace]_vars

\* Overlapping calls on one trial that is stored: each batch is one record of
\* the trial, with a marker and a payload, and each call carries one link
UpdateBatches ==
    {<<TrialRecord("NCT0001", DateTimeV(d, 0), p)>> :
        d \in 1..MaxDay, p \in {PayloadA, PayloadB}}

LinkHints == {h \in Hints : (h.asset_id = None) # (h.indication_id = None)}

NextUpdateRace ==
    \/ \E r \in RunIds, b \in UpdateBatches, h \in LinkHints :
          start_run(r, "process_clinical_trials", b, h.asset_id,
                    h.indication_id, h.search_type)
    \/ \E r \in RunIds : trial_query(r)
    \/ \E r \in RunIds : trial_flush(r)
    \/ \E r \in RunIds : session_commit(r)

SpecUpdateRace == Init /\ [][NextUpdateRace]_vars

----------------------------------------------------------------------------
(* Properties of process_clinical_trials.  A step is what one record of    *)
(* the last batch did: the row before it, the row after it, and the change *)
(* rows it added.                                                          *)

IsTrialsCall == call.op = "process_clinical_trials"

Steps == IF IsTrialsCall THEN DOMAIN call.steps ELSE {}

WellFormed(trial) == trial.nct_id # Missing

\* The change rows the last call committed
Appended == SubSeq(changes, Len(pre.changes) + 1, Len(changes))

\* How many rows of a sequence of change rows satisfy Test
CountOf(log, Test(_)) == Cardinality({k \in DOMAIN log : Test(log[k])})

\* The text form the change log holds of a value
TextOf(v) == IF v = None THEN None ELSE StrV(PyStr(v))

\* Step i met a stored row whose marker differs from the incoming one
DiffStep(i) ==
    /\ WellFormed(call.trials[i])
    /\ call.steps[i].before # None
    /\ date_of(call.steps[i].before.last_updated)
           # date_of(call.trials[i].last_updated)

\* Step i met a stored row with the same marker, at date granularity
SameMarkerStep(i) ==
    /\ WellFormed(call.trials[i])
    /\ call.steps[i].before # None
    /\ date_of(call.steps[i].before.last_updated)
           = date_of(call.trials[i].last_updated)

\* Step i is the last one of the batch for its trial
LastFor(i) ==
    \A j \in Steps : j > i => call.trials[j].nct_id # call.trials[i].nct_id

IsNewStep(i) == WellFormed(call.trials[i]) /\ call.steps[i].before = None

(* C2: a record whose trial identifier is not yet stored inserts the row   *)
(* with the hinted asset id, indication id and search-type tag, appends    *)
(* exactly one change row ("new_trial", old value null, new value = the    *)
(* identifier) and is counted as new.                                      *)
C2_NewTrialSeeding ==
    IsTrialsCall =>
      /\ \A i \in Steps : IsNewStep(i) =>
            LET trial == call.trials[i]
                step == call.steps[i]
            IN  /\ call.outcomes[i] = "new"
                /\ step.after # None
                /\ step.after.nct_id = trial.nct_id
                /\ step.after.asset_id = call.asset_id
                /\ step.after.indication_id = call.indication_id
                /\ step.after.search_type = call.search_type
                /\ \A f \in {"title", "status", "phase", "start_date",
                              "completion_date", "enrollment", "sponsor",
                              "primary_endpoint", "source_url", "last_updated",
                              "raw_data"} : step.after[f] = trial[f]
                /\ step.after.results_summary = trial.summary
                /\ step.events =
                       <<[nct_id |-> trial.nct_id, field_name |-> "new_trial",
                          old_value |-> None, new_value |-> trial.nct_id]>>
                /\ trials[trial.nct_id.v] # None
      /\ call.new_count = Cardinality({i \in Steps : IsNewStep(i)})
      /\ \A n \in NctIds :
            LET IsSeed(e) == e.nct_id = StrV(n) /\ e.field_name = "new_trial"
            IN  CountOf(Appended, IsSeed) =
                  IF pre.trials[n] = None /\ trials[n] # None THEN 1 ELSE 0

C2_Witness ==
    /\ IsTrialsCall
    /\ \E i \in Steps : /\ IsNewStep(i)
                         /\ call.asset_id # None
                         /\ call.steps[i].events # <<>>
                         /\ call.new_count > 0

TrackedFields == {TRACKED_TRIAL_FIELDS[k] : k \in DOMAIN TRACKED_TRIAL_FIELDS}

Differs(before, trial, f) ==
    trial[f] # None /\ TextOf(trial[f]) # TextOf(before[f])

(* C6: for an existing trial whose incoming marker differs from the stored *)
(* one, each tracked field gets a change row (field, old text, new text)   *)
(* if and only if the incoming value is non-null and its text differs from *)
(* the text of the stored value; such a field takes the incoming value.    *)
C6_FieldDiff ==
    \A i \in Steps : DiffStep(i) =>
        LET trial == call.trials[i]
            step == call.steps[i]
        IN  /\ \A f \in TrackedFields :
                 LET IsF(e) == e.field_name = f
                 IN  IF Differs(step.before, trial, f)
                     THEN /\ CountOf(step.events, IsF) = 1
                          /\ \E k \in DOMAIN step.events :
                               step.events[k] =
                                 [nct_id |-> trial.nct_id, field_name |-> f,
                                  old_value |-> TextOf(step.before[f]),
                                  new_value |-> TextOf(trial[f])]
                          /\ step.after[f] = trial[f]
                          /\ LastFor(i) =>
                               trials[trial.nct_id.v][f] = DateColumn(trial[f])
                     ELSE CountOf(step.events, IsF) = 0
            /\ \A k \in DOMAIN step.events :
                 step.events[k].field_name \in TrackedFields

\* stored RECRUITING, incoming COMPLETED
C6_Witness ==
    \E i \in Steps :
        /\ DiffStep(i)
        /\ call.steps[i].before.status = StrV("RECRUITING")
        /\ call.trials[i].status = StrV("COMPLETED")
        /\ call.steps[i].after.status = StrV("COMPLETED")
        /\ \E k \in DOMAIN call.steps[i].events :
             /\ call.steps[i].events[k].field_name = "status"
             /\ call.steps[i].events[k].old_value = StrV("RECRUITING")
             /\ call.steps[i].events[k].new_value = StrV("COMPLETED")

TrialColumns ==
    {"nct_id", "asset_id", "indication_id", "title", "status", "phase",
     "start_date", "completion_date", "enrollment", "sponsor",
     "primary_endpoint", "results_summary", "source_url", "last_updated",
     "search_type", "raw_data"}

FilledOrKept(before, after, f, hint) ==
    \/ after[f] = before[f]
    \/ before[f] = None /\ hint # None /\ after[f] = hint

(* C7: an existing trial re-observed with a marker of the same calendar    *)
(* date gets no change row, and no field of its row is modified other than *)
(* a null asset id or indication id filled by the link merge, even when    *)
(* the incoming tracked fields differ from the stored ones.                *)
C7_CheapSkip ==
    /\ \A i \in Steps : SameMarkerStep(i) =>
          LET step == call.steps[i]
          IN  /\ step.events = <<>>
              /\ \A f \in TrialColumns \ {"asset_id", "indication_id"} :
                   step.after[f] = step.before[f]
              /\ FilledOrKept(step.before, step.after, "asset_id", call.asset_id)
              /\ FilledOrKept(step.before, step.after, "indication_id",
                              call.indication_id)
    \* a batch of such records commits no change row and no other column
    /\ ( /\ IsTrialsCall
         /\ \A i \in Steps : WellFormed(call.trials[i]) => SameMarkerStep(i) ) =>
          /\ Appended = <<>>
          /\ \A n \in NctIds :
               /\ (pre.trials[n] = None) = (trials[n] = None)
               /\ pre.trials[n] # None =>
                    \A f \in TrialColumns \ {"asset_id", "indication_id"} :
                        trials[n][f] = pre.trials[n][f]

\* same day, another time of day, another status
C7_Witness ==
    \E i \in Steps :
        /\ SameMarkerStep(i)
        /\ call.trials[i].last_updated # None
        /\ call.trials[i].last_updated.h # 0
        /\ call.trials[i].status # call.steps[i].before.status
        /\ call.trials[i].enrollment # call.steps[i].before.enrollment
        /\ call.steps[i].after.asset_id # call.steps[i].before.asset_id

IsDiffStepOf(c, i) ==
    /\ WellFormed(c.trials[i])
    /\ c.steps[i].before # None
    /\ date_of(c.steps[i].before.last_updated) # date_of(c.trials[i].last_updated)

\* The record of step i was processed, as a diff step, right before it
RepeatsDiffStep(i) ==
    \/ /\ i > 1
       /\ call.trials[i - 1] = call.trials[i]
       /\ IsDiffStepOf(call, i - 1)
    \/ /\ i = 1
       /\ pre.call.op = "process_clinical_trials"
       /\ pre.call.trials # <<>>
       /\ pre.call.trials[Len(pre.call.trials)] = call.trials[1]
       /\ IsDiffStepOf(pre.call, Len(pre.call.trials))

(* C9: when an existing trial is processed with a marker that differs from *)
(* the stored one, the stored marker is the incoming one afterwards,       *)
(* whether or not a tracked field changed; the same record processed again *)
(* right after it takes the no-diff branch and adds no change row.         *)
C9_MarkerPersistence ==
    \A i \in Steps :
        /\ DiffStep(i) =>
             /\ call.steps[i].after.last_updated = call.trials[i].last_updated
             /\ LastFor(i) =>
                  trials[call.trials[i].nct_id.v].last_updated
                      = DateColumn(call.trials[i].last_updated)
        /\ RepeatsDiffStep(i) =>
             /\ call.outcomes[i] \in {"skipped", "merged"}
             /\ call.steps[i].events = <<>>

\* the first pass changed no tracked field, the second one skips
C9_Witness ==
    /\ IsTrialsCall
    /\ Len(call.trials) = 1
    /\ RepeatsDiffStep(1)
    /\ pre.call.outcomes[Len(pre.call.trials)] = "unchanged"
    /\ call.outcomes[1] = "skipped"
    /\ trials[call.trials[1].nct_id.v].last_updated
           = DateColumn(call.trials[1].last_updated)

(* C5: a trial inserted by an asset-axis batch (asset id a, no indication) *)
(* and later met by a disease-axis batch (no asset, indication id i) ends  *)
(* with asset id a and indication id i, whether or not the marker changed. *)
C5_CrossAxis ==
    (IsTrialsCall /\ call.asset_id = None /\ call.indication_id # None) =>
      \A i \in Steps :
        LET trial == call.trials[i]
            step == call.steps[i]
        IN  ( /\ WellFormed(trial)
              /\ step.before # None
              /\ step.before.search_type = StrV("asset")
              /\ step.before.asset_id # None
              /\ step.before.indication_id = None ) =>
            /\ step.after.asset_id = step.before.asset_id
            /\ step.after.indication_id = call.indication_id
            /\ trials[trial.nct_id.v].asset_id = step.before.asset_id
            /\ trials[trial.nct_id.v].indication_id = call.indication_id

\* the asset-axis batch came right before, and the marker is the same
C5_Witness ==
    /\ IsTrialsCall
    /\ pre.call.op = "process_clinical_trials"
    /\ pre.call.asset_id = IntV(1) /\ pre.call.indication_id = None
    /\ call.asset_id = None /\ call.indication_id = IntV(1)
    /\ \E i \in Steps :
         /\ SameMarkerStep(i)
         /\ pre.trials[call.trials[i].nct_id.v] # None
         /\ pre.call.outcomes = <<"new">>
         /\ trials[call.trials[i].nct_id.v].asset_id = IntV(1)
         /\ trials[call.trials[i].nct_id.v].indication_id = IntV(1)


MergeRule(before, after, f, hint) ==
    after[f] = IF hint # None /\ before[f] = None THEN hint ELSE before[f]

MergedStep(c, i) ==
    /\ MergeRule(c.steps[i].before, c.steps[i].after, "asset_id", c.asset_id)
    /\ MergeRule(c.steps[i].before, c.steps[i].after, "indication_id",
                 c.indication_id)

(* C3: when process_clinical_trials or process_publications meets a stored *)
(* row, the asset id (indication id) after the record is the hint if and   *)
(* only if the hint is non-null and the stored value was null; otherwise   *)
(* it is the stored value.                                                 *)
C3_MergePolicy ==
    /\ IsTrialsCall =>
         \A i \in Steps :
           (WellFormed(call.trials[i]) /\ call.steps[i].before # None) =>
             /\ MergedStep(call, i)
             /\ LastFor(i) =>
                  /\ trials[call.trials[i].nct_id.v].asset_id
                        = call.steps[i].after.asset_id
                  /\ trials[call.trials[i].nct_id.v].indication_id
                        = call.steps[i].after.indication_id
    /\ call.op = "process_publications" =>
         \A i \in DOMAIN call.steps :
           (call.publications[i].pmid # Missing /\ call.steps[i].before # None) =>
             /\ MergedStep(call, i)
             /\ ( /\ ~call.raised
                  /\ \A j \in DOMAIN call.steps :
                       j > i => call.publications[j].pmid # call.publications[i].pmid ) =>
                  /\ publications[call.publications[i].pmid.v].asset_id
                        = call.steps[i].after.asset_id
                  /\ publications[call.publications[i].pmid.v].indication_id
                        = call.steps[i].after.indication_id

\* a stored asset link meets another asset hint, a null indication a hint
C3_Witness ==
    /\ IsTrialsCall
    /\ \E i \in Steps :
         /\ WellFormed(call.trials[i])
         /\ call.steps[i].before # None
         /\ call.steps[i].before.asset_id = IntV(1)
         /\ call.steps[i].before.indication_id = None
         /\ call.asset_id = IntV(2)
         /\ call.indication_id = IntV(2)
         /\ trials[call.trials[i].nct_id.v].asset_id = IntV(1)
         /\ trials[call.trials[i].nct_id.v].indication_id = IntV(2)

LinkKept(before, after, f) ==
    (before # None /\ before[f] # None) => (after # None /\ after[f] = before[f])

(* C4: once a stored row's asset id or indication id is non-null, it is    *)
(* never null afterwards and never another value, whatever DataProcessor   *)
(* operation runs (process_clinical_trials, process_publications,          *)
(* process_news, process_patents, link_trial_to_asset).                    *)
C4_LinkStability ==
    /\ \A n \in NctIds :
         /\ LinkKept(pre.trials[n], trials[n], "asset_id")
         /\ LinkKept(pre.trials[n], trials[n], "indication_id")
    /\ \A m \in Pmids :
         /\ LinkKept(pre.publications[m], publications[m], "asset_id")
         /\ LinkKept(pre.publications[m], publications[m], "indication_id")
    /\ \A u \in Urls : LinkKept(pre.news_articles[u], news_articles[u], "asset_id")
    /\ \A n \in PatentNumbers : LinkKept(pre.patents[n], patents[n], "asset_id")

(* C8: whenever process_clinical_trials changes the stored value of a      *)
(* tracked field of an existing trial, exactly one change row for that     *)
(* trial and field is appended, with the previous value as old text and    *)
(* the new stored value as new text; no tracked field changes, not even to *)
(* null, without such a row.                                               *)
C8_AuditCompleteness ==
    \A i \in Steps :
      (WellFormed(call.trials[i]) /\ call.steps[i].before # None) =>
        LET step == call.steps[i]
        IN  \A f \in TrackedFields :
              LET IsF(e) == e.field_name = f
              IN  DateColumn(step.after[f]) # DateColumn(step.before[f]) =>
                    /\ CountOf(step.events, IsF) = 1
                    /\ \E k \in DOMAIN step.events :
                         /\ step.events[k].field_name = f
                         /\ step.events[k].old_value = TextOf(step.before[f])
                         /\ step.events[k].new_value = TextOf(step.after[f])

(* C10: when an existing trial is updated because a tracked field changed, *)
(* title, sponsor and primary endpoint are overwritten only when the       *)
(* incoming value is non-null; an incoming null leaves the stored value.   *)
C10_NonClobbering ==
    \A i \in Steps :
      call.outcomes[i] = "updated" =>
        \A f \in {"title", "sponsor", "primary_endpoint"} :
          call.trials[i][f] = None =>
            call.steps[i].after[f] = call.steps[i].before[f]

\* The call repeats the previous one: same batch, same hints
Resubmitted ==
    /\ IsTrialsCall
    /\ pre.call.op = "process_clinical_trials"
    /\ pre.call.trials = call.trials
    /\ pre.call.asset_id = call.asset_id
    /\ pre.call.indication_id = call.indication_id
    /\ pre.call.search_type = call.search_type

\* No record of the second run finds a null link that its hint would fill
NoMergeOpportunity ==
    \A i \in Steps :
      (WellFormed(call.trials[i]) /\ pre.trials[call.trials[i].nct_id.v] # None) =>
        /\ ~id_missing(call.asset_id, pre.trials[call.trials[i].nct_id.v].asset_id)
        /\ ~id_missing(call.indication_id,
                       pre.trials[call.trials[i].nct_id.v].indication_id)

SecondRunIsNoOp ==
    /\ trials = pre.trials
    /\ changes = pre.changes
    /\ call.skipped_count = Len(call.trials)
    /\ call.total = 0

Coherent(batch) ==
    \A i, j \in DOMAIN batch :
      /\ WellFormed(batch[i])
      /\ batch[i].nct_id = batch[j].nct_id =>
           date_of(batch[i].last_updated) = date_of(batch[j].last_updated)

----------------------------------------------------------------------------
(* Properties of process_news and process_patents *)

IsNewsCall == call.op = "process_news"

NewsSteps == IF IsNewsCall THEN DOMAIN call.steps ELSE {}

\* The first record of the batch that carries the url
FirstWithUrl(u) ==
    CHOOSE i \in DOMAIN call.articles :
        /\ call.articles[i].url = StrV(u)
        /\ \A j \in DOMAIN call.articles :
              call.articles[j].url = StrV(u) => i <= j

\* The urls whose row the last call inserted
InsertedUrls ==
    {u \in Urls : pre.news_articles[u] = None /\ news_articles[u] # None}

(* C11: at most one row is stored per article url: a record whose url is   *)
(* already stored, from an earlier batch or earlier in the same batch,     *)
(* changes no column of the stored row and is not counted; the row of a    *)
(* url is the one of its first-submitted record, and the returned count is *)
(* the number of rows the batch inserted.                                  *)
C11_NewsDedup ==
    IsNewsCall =>
      /\ \A i \in NewsSteps :
           call.steps[i].before # None =>
             /\ call.steps[i].after = call.steps[i].before
             /\ call.outcomes[i] = "conflict"
      /\ \A u \in Urls :
           pre.news_articles[u] # None => news_articles[u] = pre.news_articles[u]
      /\ \A u \in InsertedUrls :
           news_articles[u] = new_article(call.articles[FirstWithUrl(u)],
                                          call.asset_id, call.search_type)
      /\ call.count = Cardinality(InsertedUrls)
      /\ call.count = Cardinality({i \in NewsSteps : call.outcomes[i] = "inserted"})

\* two records with one url and two titles: one row, the first title, count 1
C11_Witness ==
    /\ IsNewsCall
    /\ Len(call.articles) = 2
    /\ call.articles[1].url = call.articles[2].url
    /\ call.articles[1].title # call.articles[2].title
    /\ pre.news_articles[call.articles[1].url.v] = None
    /\ news_articles[call.articles[1].url.v].title = call.articles[1].title
    /\ call.outcomes = <<"inserted", "conflict">>
    /\ call.count = 1


IsPatentsCall == call.op = "process_patents"

\* The records of the last process_patents call that met a stored row
PatentUpdates ==
    IF IsPatentsCall
    THEN {i \in DOMAIN call.steps :
            call.patents[i].patent_number # Missing /\ call.steps[i].before # None}
    ELSE {}

LastPatentFor(i) ==
    \A j \in DOMAIN call.patents :
        j > i => call.patents[j].patent_number # call.patents[i].patent_number

PatentFrame == {"patent_number", "asset_id", "filing_date", "source_url",
                "search_type"}

(* C13: a patent's asset id is the hint of the call that inserted its row; *)
(* a later process_patents record for the same patent number, whatever the *)
(* asset hint, leaves asset id, filing date, source url and search-type    *)
(* tag of the stored row unchanged.                                        *)
C13_PatentLinkFrame ==
    IsPatentsCall =>
      /\ \A i \in PatentUpdates :
           \A f \in PatentFrame :
             call.steps[i].after[f] = call.steps[i].before[f]
      /\ \A n \in PatentNumbers :
           pre.patents[n] # None =>
             \A f \in PatentFrame : patents[n][f] = pre.patents[n][f]
      /\ \A n \in PatentNumbers :
           (pre.patents[n] = None /\ patents[n] # None) =>
             patents[n].asset_id = call.asset_id

\* a row inserted for asset 1 meets a record with another filing date in a
\* call with no asset hint
C13_Witness ==
    /\ IsPatentsCall
    /\ call.asset_id = None
    /\ \E i \in PatentUpdates :
         LET n == call.patents[i].patent_number.v
         IN  /\ pre.patents[n] # None
             /\ pre.patents[n].asset_id = IntV(1)
             /\ pre.patents[n].search_type # call.search_type
             /\ DateColumn(call.patents[i].filing_date) # pre.patents[n].filing_date
             /\ patents[n].asset_id = IntV(1)
             /\ patents[n].abstract # pre.patents[n].abstract


UntrackedOps == {"process_publications", "process_news", "process_patents"}

(* C14: process_publications, process_news and process_patents leave the   *)
(* change log as it was: no row appended, modified or removed, for any     *)
(* batch and any prior store.                                              *)
C14_ChangeLogFrame ==
    call.op \in UntrackedOps => changes = pre.changes

\* articles are inserted into a store whose change log is not empty
C14_Witness ==
    /\ IsNewsCall
    /\ call.count > 0
    /\ news_articles # pre.news_articles
    /\ pre.changes # <<>>
    /\ changes = pre.changes


----------------------------------------------------------------------------
(* Properties of the four process_* operations on records that fail *)

ProcessOps == {"process_clinical_trials", "process_publications",
               "process_news", "process_patents"}

HasNctId(trial) == trial.nct_id # Missing
HasPmid(pub) == pub.pmid # Missing
HasUrl(article) == article.url # None
HasPatentNumber(patent) == patent.patent_number # Missing

\* The store the trials call would have left without its malformed records
TrialsIsolated ==
    LET e == run_trials(pre.trials, pre.changes, SelectSeq(call.trials, HasNctId),
                        call.asset_id, call.indication_id, call.search_type)
    IN  /\ call.raised = commit_raises(e)
        /\ trials = IF commit_raises(e) THEN pre.trials ELSE commit_trials(e)
        /\ changes = IF commit_raises(e) THEN pre.changes ELSE e.changes

PublicationsIsolated ==
    LET e == run_publications(pre.publications,
                              SelectSeq(call.publications, HasPmid),
                              call.asset_id, call.indication_id, call.search_type)
    IN  /\ call.raised = ~publications_flush_ok(e)
        /\ publications = committed_publications(pre.publications, e)

NewsIsolated ==
    LET e == run_news(pre.news_articles, SelectSeq(call.articles, HasUrl),
                      call.asset_id, call.search_type)
    IN  /\ ~call.raised
        /\ news_articles = committed_news(pre.news_articles, e)

PatentsIsolated ==
    LET e == run_patents(pre.patents, SelectSeq(call.patents, HasPatentNumber),
                         call.asset_id, call.search_type)
    IN  /\ ~call.raised
        /\ patents = committed_patents(pre.patents, e)

(* C15: a record without its natural key is skipped, and the other records *)
(* of the batch are processed and committed exactly as if that record had  *)
(* not been in the batch, in process_clinical_trials, process_publications, *)
(* process_news and process_patents.                                       *)
C15_FailureIsolation ==
    /\ IsTrialsCall => TrialsIsolated
    /\ call.op = "process_publications" => PublicationsIsolated
    /\ IsNewsCall => NewsIsolated
    /\ IsPatentsCall => PatentsIsolated


\* Record i of the last call did not fail, and what it did is in the store
TrialKept(i) ==
    (call.outcomes[i] # "error" /\ LastFor(i)) =>
        trials[call.trials[i].nct_id.v] = commit_trial(call.steps[i].after)

PublicationKept(i) ==
    LET m == call.publications[i].pmid.v
    IN  /\ call.outcomes[i] = "new" =>
            /\ publications[m] # None
            /\ publications[m].asset_id = call.asset_id
        /\ call.outcomes[i] = "existing" =>
            /\ publications[m] # None
            /\ publications[m].asset_id = call.steps[i].after.asset_id

ArticleKept(i) ==
    call.outcomes[i] = "inserted" =>
        news_articles[call.articles[i].url.v] = call.steps[i].after

PatentKept(i) ==
    (call.outcomes[i] \in {"inserted", "updated"} /\ LastPatentFor(i)) =>
        patents[call.patents[i].patent_number.v] = call.steps[i].after

AllKept ==
    /\ IsTrialsCall => \A i \in DOMAIN call.steps : TrialKept(i)
    /\ call.op = "process_publications" =>
          \A i \in DOMAIN call.steps : PublicationKept(i)
    /\ IsNewsCall => \A i \in DOMAIN call.steps : ArticleKept(i)
    /\ IsPatentsCall => \A i \in DOMAIN call.steps : PatentKept(i)

StoreUnchanged ==
    /\ trials = pre.trials
    /\ changes = pre.changes
    /\ publications = pre.publications
    /\ news_articles = pre.news_articles
    /\ patents = pre.patents

(* C16: a record the store rejects (duplicate natural key, foreign key to  *)
(* no asset, required column null) is skipped: no process_* call raises to *)
(* its caller, and what the other records of the batch did is committed.   *)
C16_ViolationsNotFatal ==
    call.op \in ProcessOps => (~call.raised /\ AllKept)

(* C17: a process_* call either returns its count with the mutations of    *)
(* all records that did not fail committed, or raises with the store as it *)
(* was before the call; it never returns while the mutations it counted    *)
(* are not in the store.                                                   *)
C17_BatchAtomicity ==
    call.op \in ProcessOps =>
        /\ call.raised => StoreUnchanged
        /\ ~call.raised => AllKept


\* The three counters of a process_clinical_trials call
CountsOf(c) == <<c.new_count, c.updated_count, c.skipped_count>>

(* C20: process_clinical_trials reports to its caller the counts of new,   *)
(* updated and skipped records of the batch: what two calls return differs *)
(* whenever their counts differ.                                           *)
C20_ReportsCounts ==
    ( /\ IsTrialsCall
      /\ pre.call.op = "process_clinical_trials"
      /\ ~call.raised /\ ~pre.call.raised
      /\ call.total = pre.call.total ) =>
        CountsOf(call) = CountsOf(pre.call)


----------------------------------------------------------------------------
(* Properties of overlapping calls *)

RowsOf(op) == db[TableOf(op)]

RowsWithKey(op, key) == Matching(RowsOf(op), KeyOf(op), key)

Ended(r) == runs[r].result \in {"returned", "raised"}

\* C18: in every committed state that sequential or overlapping calls reach,
\* each of the four tables holds at most one row per natural key (nct_id,
\* pmid, url, patent_number)
C18_NaturalKeyUniqueness ==
    \A op \in ProcessOps :
        \A i, j \in DOMAIN RowsOf(op) :
            RowsOf(op)[i][KeyOf(op)] = RowsOf(op)[j][KeyOf(op)] => i = j

\* Two calls met on one trial: the INSERT of the second was rejected, and the
\* trial has its one row
C18_Witness ==
    \E r \in RunIds :
        /\ Ended(r)
        /\ \E i \in DOMAIN runs[r].outcomes :
              /\ runs[r].outcomes[i] = "rejected"
              /\ Cardinality(RowsWithKey(runs[r].op,
                                         runs[r].batch[i].nct_id)) = 1

\* The calls that lost the first insert of a trial: the server rejected the
\* INSERT of record i
Lost(r, i) ==
    /\ runs[r].op = "process_clinical_trials"
    /\ Ended(r)
    /\ i \in DOMAIN runs[r].outcomes
    /\ runs[r].outcomes[i] = "rejected"

SeedEvents(key) ==
    {e \in DOMAIN db.changes :
        db.changes[e].nct_id = key /\ db.changes[e].field_name = "new_trial"}

OneRowOneSeed(key) ==
    /\ Cardinality(RowsWithKey("process_clinical_trials", key)) = 1
    /\ Cardinality(SeedEvents(key)) = 1

\* The call that lost goes on: it returns, and every other record of its
\* batch is in the committed table
LoserContinues(r, i) ==
    /\ runs[r].result = "returned"
    /\ \A j \in DOMAIN runs[r].batch \ {i} :
          RowsWithKey("process_clinical_trials", runs[r].batch[j].nct_id) # {}

\* C19: when two overlapping calls process a record of the same trial that is
\* not stored yet, the second INSERT is rejected, the trial has exactly one
\* row and exactly one new_trial event, and the call that lost commits the
\* other records of its batch and does not raise
C19_ConcurrentFirstInsert ==
    \A r \in RunIds : \A i \in DOMAIN runs[r].batch :
        Lost(r, i) =>
            /\ OneRowOneSeed(runs[r].batch[i].nct_id)
            /\ LoserContinues(r, i)

----------------------------------------------------------------------------
(* What the calls return *)

\* The records of the last process_patents call that inserted a row
PatentInserts ==
    IF IsPatentsCall
    THEN {i \in DOMAIN call.steps :
            call.steps[i].before = None /\ call.steps[i].after # None}
    ELSE {}

(* C21: process_patents returns the number of patent rows the batch        *)
(* inserted; a record whose patent number is already stored adds nothing   *)
(* to the returned count.                                                  *)
C21_PatentInsertCount ==
    IsPatentsCall => call.count = Cardinality(PatentInserts)

IsPublicationsCall == call.op = "process_publications"

\* The records of the last process_publications call that met a stored row
PublicationHits ==
    IF IsPublicationsCall
    THEN {i \in DOMAIN call.steps : call.steps[i].before # None}
    ELSE {}

PublicationFrame == {"pmid", "title", "authors", "journal", "publication_date",
                     "abstract", "doi", "source_url", "search_type"}

\* The merge rule on one link: kept, or null and set to the hint
MergedLink(before, after, hint) ==
    \/ after = before
    \/ ~Truthy(before) /\ Truthy(hint) /\ after = hint

(* C22: process_publications on a stored pmid changes at most a null asset *)
(* id or a null indication id, by the merge rule, and leaves title,        *)
(* authors, journal, publication date, abstract, DOI, source URL and       *)
(* search-type tag as stored; the count returned is the number of          *)
(* publications newly inserted.                                            *)
C22_PublicationsImmutable ==
    /\ \A i \in PublicationHits :
         LET before == call.steps[i].before
             after == call.steps[i].after
         IN  /\ \A f \in PublicationFrame : after[f] = before[f]
             /\ MergedLink(before.asset_id, after.asset_id, call.asset_id)
             /\ MergedLink(before.indication_id, after.indication_id,
                           call.indication_id)
    /\ (IsPublicationsCall /\ ~call.raised) =>
         /\ \A m \in Pmids :
              pre.publications[m] # None =>
                 /\ \A f \in PublicationFrame :
                       publications[m][f] = pre.publications[m][f]
                 /\ MergedLink(pre.publications[m].asset_id,
                               publications[m].asset_id, call.asset_id)
                 /\ MergedLink(pre.publications[m].indication_id,
                               publications[m].indication_id,
                               call.indication_id)
         /\ call.new_count =
              Cardinality({m \in Pmids : pre.publications[m] = None
                                         /\ publications[m] # None})

\* a stored publication without asset meets a record with another title and
\* an asset hint, next to a new publication
C22_Witness ==
    /\ IsPublicationsCall
    /\ ~call.raised
    /\ PublicationHits = {1}
    /\ Len(call.publications) = 2
    /\ call.publications[1].title # call.steps[1].before.title
    /\ call.steps[1].before.asset_id = None
    /\ call.steps[1].after.asset_id = IntV(1)
    /\ call.new_count = 1

----------------------------------------------------------------------------
(* What the store keeps *)

(* C23: the change log is append-only: no operation updates, deletes or    *)
(* deduplicates a committed change row; the log after a call is the log    *)
(* before it, row for row, followed by the rows the call added.            *)
C23_ChangeLogAppendOnly ==
    /\ Len(pre.changes) <= Len(changes)
    /\ SubSeq(changes, 1, Len(pre.changes)) = pre.changes

\* a call added change rows to a log that held some
C23_Witness ==
    /\ pre.changes # <<>>
    /\ Len(changes) > Len(pre.changes)
    /\ call.op = "process_clinical_trials"

\* A natural key that had a committed row before the last call has one after
Retained(before, after, keys) ==
    \A k \in keys : before[k] # None => after[k] # None

(* C24: retention is total: once a row of a trial, a publication, a news   *)
(* article or a patent is committed, its natural key has a row in every    *)
(* later state; no operation deletes a row.                                *)
C24_TotalRetention ==
    /\ Retained(pre.trials, trials, NctIds)
    /\ Retained(pre.publications, publications, Pmids)
    /\ Retained(pre.news_articles, news_articles, Urls)
    /\ Retained(pre.patents, patents, PatentNumbers)

\* a call on a table that holds a row of a key its batch does not carry
C24_Witness ==
    /\ IsPatentsCall
    /\ call.count > 0
    /\ \E n \in PatentNumbers :
          /\ pre.patents[n] # None
          /\ patents[n] = pre.patents[n]
          /\ \A i \in DOMAIN call.patents :
                call.patents[i].patent_number # StrV(n)

----------------------------------------------------------------------------
(* Properties of overlapping calls on a stored trial *)

LinkColumns == {"asset_id", "indication_id"}

\* A commit leaves every committed link that is set as it is
LinksKept ==
    \A i \in DOMAIN db.trials : \A f \in LinkColumns :
        db.trials[i][f] # None => db'.trials[i][f] = db.trials[i][f]

(* C25: first writer wins: when two overlapping calls process the same     *)
(* stored trial whose asset id is null, each with its own asset hint, the  *)
(* asset id that is committed first stays; the call that commits later     *)
(* does not replace it (and likewise for the indication id).               *)
C25_FirstWriterWins == [][LinksKept]_vars

\* The field transitions of the committed change log
Transitions == {i \in DOMAIN db.changes : db.changes[i].field_name # "new_trial"}

(* C26: no duplicate change events: when two overlapping calls observe the *)
(* same stored trial with the same new marker and the same new value of a  *)
(* tracked field, the committed log holds that transition once: two equal  *)
(* transition rows are separated by another transition of that field.      *)
C26_NoDuplicateEvents ==
    \A i, j \in Transitions :
        (i < j /\ db.changes[i] = db.changes[j]) =>
            \E m \in Transitions :
                /\ i < m /\ m < j
                /\ db.changes[m].nct_id = db.changes[i].nct_id
                /\ db.changes[m].field_name = db.changes[i].field_name

----------------------------------------------------------------------------
(* Properties of overlapping process_publications calls *)

(* C27: the publication path is an atomic upsert: when two overlapping     *)
(* calls process the same pmid that is not stored yet, one row is stored,  *)
(* both calls commit the other records of their batches and both return;   *)
(* neither fails because of the insert of the other.                       *)
C27_AtomicPublicationUpsert ==
    \A r \in RunIds :
        (runs[r].op = "process_publications" /\ Ended(r)) =>
            /\ runs[r].result = "returned"
            /\ \A i \in DOMAIN runs[r].batch :
                  Cardinality(RowsWithKey(runs[r].op, runs[r].batch[i].pmid)) = 1

----------------------------------------------------------------------------
(* The marker-changed branch and the counters of process_clinical_trials *)

\* Two values denote the same thing: the same string, the same integer, the
\* same calendar date
SameValue(a, b) == date_of(a) = date_of(b)

\* Step i met a stored row with another marker, and the incoming status,
\* phase, enrollment and completion date are the stored ones
UnchangedStep(i) ==
    /\ DiffStep(i)
    /\ \A f \in TrackedFields :
          SameValue(call.steps[i].before[f], call.trials[i][f])

(* C28: update only if changed: an existing trial processed with another   *)
(* marker but with the stored status, phase, enrollment and completion     *)
(* date (the same strings, integer and calendar date) gets no change row,  *)
(* none of its columns other than last_updated and the merged links is     *)
(* modified, and the record is not counted as updated.                     *)
C28_UpdateOnlyIfChanged ==
    \A i \in Steps : UnchangedStep(i) =>
        LET step == call.steps[i]
        IN  /\ step.events = <<>>
            /\ \A f \in TrialColumns \ {"asset_id", "indication_id", "last_updated"} :
                  SameValue(step.after[f], step.before[f])
            /\ call.outcomes[i] # "updated"

\* The link merge set the asset id or the indication id at step i
LinkSet(i) ==
    \/ call.steps[i].after.asset_id # call.steps[i].before.asset_id
    \/ call.steps[i].after.indication_id # call.steps[i].before.indication_id

\* Every record of the last batch met a stored row with the same marker
AllSameMarker ==
    /\ IsTrialsCall
    /\ ~call.raised
    /\ \A i \in Steps : SameMarkerStep(i)

(* C29: on the no-diff branch an existing trial whose marker equals the    *)
(* stored one is counted as updated if and only if the link merge set its  *)
(* asset id or its indication id while the record was processed; otherwise *)
(* it is counted as skipped and adds nothing to the returned total.        *)
C29_NoDiffCounting ==
    /\ \A i \in Steps : SameMarkerStep(i) =>
          call.outcomes[i] = IF LinkSet(i) THEN "merged" ELSE "skipped"
    /\ AllSameMarker =>
          /\ call.updated_count = Cardinality({i \in Steps : LinkSet(i)})
          /\ call.skipped_count = Cardinality({i \in Steps : ~LinkSet(i)})
          /\ call.new_count = 0
          /\ call.total = call.updated_count

\* the same stored trial twice in one batch: the first record sets the asset
\* id, the second finds it set
C29_Witness ==
    /\ AllSameMarker
    /\ Len(call.trials) = 2
    /\ LinkSet(1)
    /\ ~LinkSet(2)
    /\ call.updated_count = 1
    /\ call.skipped_count = 1
    /\ call.total = 1

\* The records of the last batch that were processed without an error
Processed == {i \in Steps : call.outcomes[i] # "error"}

\* The records counted as new or as updated
CountedAsChange == {i \in Steps : call.outcomes[i] \in {"new", "updated", "merged"}}

(* C30: count partition: every record of a trial batch that is processed   *)
(* without an error is counted in exactly one of new, updated and skipped, *)
(* so that new + updated + skipped is the number of such records; every    *)
(* record that modified the stored row, a link merge on the marker-changed *)
(* branch included, is counted as new or as updated.                       *)
C30_CountPartition ==
    (IsTrialsCall /\ ~call.raised) =>
        /\ call.new_count + call.updated_count + call.skipped_count
              = Cardinality(Processed)
        /\ call.new_count + call.updated_count = Cardinality(CountedAsChange)
        /\ \A i \in Processed :
              call.steps[i].after # call.steps[i].before => i \in CountedAsChange

----------------------------------------------------------------------------
(* The new_trial event and the trial row, over every committed state.      *)

\* The new_trial rows of a change log for one trial
SeedsIn(log, key) ==
    {e \in DOMAIN log : log[e].nct_id = key /\ log[e].field_name = "new_trial"}

\* The tables one call after another leaves behind
SeededInOrder ==
    /\ \A n \in NctIds :
          (trials[n] # None) <=> (Cardinality(SeedsIn(changes, StrV(n))) = 1)
    /\ \A e \in DOMAIN changes :
          \E n \in NctIds : changes[e].nct_id = StrV(n) /\ trials[n] # None

\* The tables overlapping calls leave behind
SeededInRace ==
    /\ \A n \in NctIds :
          (RowsWithKey("process_clinical_trials", StrV(n)) # {})
              <=> (Cardinality(SeedsIn(db.changes, StrV(n))) = 1)
    /\ \A e \in DOMAIN db.changes :
          RowsWithKey("process_clinical_trials", db.changes[e].nct_id) # {}

\* C31: in every committed state that batches of trials reach, one after
\* another or overlapping, a trial has a row exactly when the change log
\* holds exactly one new_trial row for it, and every change row names a trial
\* that has a row
C31_NewTrialEventInvariant == SeededInOrder /\ SeededInRace

\* Two overlapping calls met on one trial, the second INSERT was rejected, and
\* the trial has its row and its one new_trial row
C31_Witness ==
    \E r \in RunIds : \E i \in DOMAIN runs[r].batch :
        /\ Lost(r, i)
        /\ OneRowOneSeed(runs[r].batch[i].nct_id)

----------------------------------------------------------------------------
(* One pmid twice in one batch of publications.                            *)

\* Records i and j of the last batch name one publication, in this order,
\* and the publication was not stored when the call began
RepeatedPmid(i, j) ==
    /\ IsPublicationsCall
    /\ i \in DOMAIN call.publications /\ j \in DOMAIN call.publications
    /\ i < j
    /\ call.publications[i].pmid # Missing
    /\ call.publications[i].pmid = call.publications[j].pmid
    /\ pre.publications[call.publications[i].pmid.v] = None
    /\ \A k \in 1..(i - 1) :
          call.publications[k].pmid # call.publications[i].pmid

\* The records of the last batch that were counted as new for one pmid
CountedNew(pmid) ==
    {k \in DOMAIN call.publications :
        call.publications[k].pmid = pmid /\ call.outcomes[k] = "new"}

\* C32: when a batch of publications holds twice a pmid that is not stored,
\* the first record inserts the row, the second is handled as a stored row,
\* the table ends with the row, the pmid is counted once, and the call commits
C32_DuplicateInBatch ==
    \A i, j \in 1..MaxBatch :
        RepeatedPmid(i, j) =>
            /\ call.outcomes[i] = "new"
            /\ call.outcomes[j] = "existing"
            /\ Cardinality(CountedNew(call.publications[i].pmid)) = 1
            /\ ~call.raised
            /\ publications[call.publications[i].pmid.v] # None

----------------------------------------------------------------------------
(* One trial found by an asset batch and by an indication batch.           *)

AssetOnly(c) == c.asset_id # None /\ c.indication_id = None

IndicationOnly(c) == c.asset_id = None /\ c.indication_id # None

\* The call `first` found trial n, which was not stored, and the call `second`
\* that followed it processed a record of n; both committed
FoundThenSeen(first, second, n) ==
    /\ first.op = "process_clinical_trials"
    /\ second.op = "process_clinical_trials"
    /\ ~first.raised /\ ~second.raised
    /\ \E k \in DOMAIN first.trials :
          first.trials[k].nct_id = StrV(n) /\ first.steps[k].before = None
    /\ \E k \in DOMAIN second.trials : second.trials[k].nct_id = StrV(n)

\* The last two calls were an asset batch and an indication batch, in either
\* order, and trial n was found by the first of them
OppositeAxes(n) ==
    /\ call.op = "process_clinical_trials"
    /\ FoundThenSeen(pre.call, call, n)
    /\ \/ AssetOnly(pre.call) /\ IndicationOnly(call)
       \/ IndicationOnly(pre.call) /\ AssetOnly(call)

\* C33: when a trial is found by a batch with only an asset link and by a
\* batch with only an indication link, its row ends with both links whichever
\* batch came first, and with the search_type of the batch that came first
C33_LinkOrderIndependence ==
    \A n \in NctIds :
        OppositeAxes(n) =>
            /\ trials[n].asset_id = PyOr(pre.call.asset_id, call.asset_id)
            /\ trials[n].indication_id =
                   PyOr(pre.call.indication_id, call.indication_id)
            /\ trials[n].search_type = pre.call.search_type

\* The indication batch came first and the asset batch second, and the row
\* holds both links
C33_Witness ==
    \E n \in NctIds :
        /\ OppositeAxes(n)
        /\ IndicationOnly(pre.call)
        /\ trials[n].asset_id = call.asset_id
        /\ trials[n].indication_id = pre.call.indication_id

----------------------------------------------------------------------------
(* The search_type of a stored row.                                        *)

\* The tags the callers pass, and no tag
SearchTypes ==
    {None, StrV("asset"), StrV("indication"), StrV("disease_discovery")}

\* A row that was stored keeps its search_type
TagKeptIn(before, after) ==
    \A k \in DOMAIN before :
        before[k] # None =>
            after[k] # None /\ after[k].search_type = before[k].search_type

\* A row that the last call inserted carries the search_type of the call
TagSetIn(before, after) ==
    \A k \in DOMAIN before :
        (before[k] = None /\ after[k] # None) =>
            after[k].search_type = call.search_type

\* What the last call does with each record of its batch when it is given
\* another search_type
BranchesWith(tag) ==
    CASE call.op = "process_clinical_trials" ->
             run_trials(pre.trials, pre.changes, call.trials, call.asset_id,
                        call.indication_id, tag).outcomes
      [] call.op = "process_publications" ->
             run_publications(pre.publications, call.publications,
                              call.asset_id, call.indication_id, tag).outcomes
      [] call.op = "process_news" ->
             run_news(pre.news_articles, call.articles, call.asset_id,
                      tag).outcomes
      [] call.op = "process_patents" ->
             run_patents(pre.patents, call.patents, call.asset_id,
                         tag).outcomes

TagIgnored ==
    call.op \in ProcessOps =>
        \A tag \in SearchTypes : BranchesWith(tag) = call.outcomes

\* C34: a stored trial, publication, news article or patent carries the
\* search_type of the call that inserted it, no later call changes it, and
\* no call takes another branch for a record because of its search_type
C34_ProvenanceTagFrame ==
    /\ TagKeptIn(pre.trials, trials) /\ TagSetIn(pre.trials, trials)
    /\ TagKeptIn(pre.publications, publications)
    /\ TagSetIn(pre.publications, publications)
    /\ TagKeptIn(pre.news_articles, news_articles)
    /\ TagSetIn(pre.news_articles, news_articles)
    /\ TagKeptIn(pre.patents, patents) /\ TagSetIn(pre.patents, patents)
    /\ TagIgnored

\* A batch with another search_type processed a record of a stored trial, and
\* the row kept the search_type it had
C34_Witness ==
    \E n \in NctIds :
        /\ IsTrialsCall
        /\ pre.trials[n] # None
        /\ call.search_type # pre.trials[n].search_type
        /\ \E k \in DOMAIN call.trials :
              call.trials[k].nct_id = StrV(n) /\ call.outcomes[k] # "error"
        /\ trials[n].search_type = pre.trials[n].search_type

----------------------------------------------------------------------------
(* The "New & Changed Trials" section of the Clinical Trials page: the     *)
(* query for the changes of the trials on display.  Every row of           *)
(* clinical_trial_changes has an id and a detected_at time that the store  *)
(* fills in when the row is inserted.                                      *)

MaxStamp == 3

\* The detected_at values of the rows of the change log: the clock is read
\* when a row is inserted, a later row has a later or the same time
DetectedAt(log) ==
    {at \in [DOMAIN log -> 1..MaxStamp] :
        \A i, j \in DOMAIN log : i <= j => at[i] <= at[j]}

\* The rows of clinical_trial_changes as the query reads them
stamped(log, detected_at) ==
    [e \in DOMAIN log |->
        [id |-> e, nct_id |-> log[e].nct_id, field_name |-> log[e].field_name,
         detected_at |-> detected_at[e]]]

\* .order_by(ClinicalTrialChange.detected_at.desc()): each row once, a later
\* detected_at first; rows with one detected_at come in an order the server
\* chooses
RECURSIVE order_by_detected_at_desc(_)
order_by_detected_at_desc(rows) ==
    IF rows = {} THEN {<<>>}
    ELSE LET latest == {x \in rows :
                           \A y \in rows : x.detected_at >= y.detected_at}
         IN  UNION {{<<x>> \o rest :
                       rest \in order_by_detected_at_desc(rows \ {x})} :
                    x \in latest}

\* Faulty variant: only the changes detected after seven_days_ago
changed_trials_after(rows, trial_nct_ids, seven_days_ago) ==
    IF trial_nct_ids = {} THEN {<<>>}
    ELSE order_by_detected_at_desc(
             {rows[e] : e \in {e \in DOMAIN rows :
                 /\ rows[e].nct_id \in trial_nct_ids
                 /\ rows[e].detected_at > seven_days_ago}})

\* lines 201-212: `if trial_nct_ids:`, .filter(nct_id.in_(trial_nct_ids),
\* detected_at >= seven_days_ago), .order_by(detected_at.desc()), .all()
changed_trials(rows, trial_nct_ids, seven_days_ago) ==
    IF trial_nct_ids = {} THEN {<<>>}
    ELSE order_by_detected_at_desc(
             {rows[e] : e \in {e \in DOMAIN rows :
                 /\ rows[e].nct_id \in trial_nct_ids
                 /\ rows[e].detected_at >= seven_days_ago}})

\* The page is rendered: the query runs in a session of its own
view_changes(trial_nct_ids, seven_days_ago, detected_at) ==
    /\ ncalls < MaxCalls
    /\ ncalls' = ncalls + 1
    /\ pre' = Snapshot
    /\ \E result \in changed_trials(stamped(changes, detected_at),
                                    trial_nct_ids, seven_days_ago) :
          call' = [op |-> "changed_trials",
                   rows |-> stamped(changes, detected_at),
                   trial_nct_ids |-> trial_nct_ids,
                   seven_days_ago |-> seven_days_ago,
                   changes |-> result]
    /\ UNCHANGED <<trials, changes, publications, news_articles, patents,
                   db, runs, nstarted,
                   collector, scheduler>>

\* The trials on display are trials of the table
ViewChanges ==
    \E shown \in SUBSET NctIds, since \in 1..MaxStamp,
       detected_at \in DetectedAt(changes) :
          view_changes({StrV(n) : n \in shown}, since, detected_at)

\* The registry reports NCT0001 completed, with its final enrollment
CompletedTrial(marker) ==
    [TrialRecord("NCT0001", marker, PayloadA) EXCEPT
        !.status = StrV("COMPLETED"), !.enrollment = IntV(200)]

DashboardRecords ==
    {TrialRecord(n, DateTimeV(d, 0), PayloadA) : n \in NctIds, d \in 1..MaxDay}
        \cup {CompletedTrial(DateTimeV(d, 0)) : d \in 1..MaxDay}

\* The batches of the asset axis that fill the change log the page reads
DashboardBatches ==
    {b \in SeqsUpTo(DashboardRecords, MaxBatch) :
        \A i, j \in 1..Len(b) : Akin(b[i], b[j])}

FillChangeLog ==
    /\ ncalls < MaxFresh
    /\ \E b \in DashboardBatches :
          process_clinical_trials(b, IntV(1), None, StrV("asset"))

NextDashboard == FillChangeLog \/ ViewChanges

SpecDashboard == Init /\ [][NextDashboard]_vars

\* The rows of the table that the query is to return
Due(row) ==
    /\ row.nct_id \in call.trial_nct_ids
    /\ row.detected_at >= call.seven_days_ago

\* C35: the query for the changed trials returns exactly the change rows
\* whose nct_id is one of the given ids and whose detected_at is not earlier
\* than the given time, each once, a later detected_at before an earlier one
C35_ChangedTrialsQuery ==
    call.op = "changed_trials" =>
        /\ \A e \in DOMAIN call.rows :
              Cardinality({i \in DOMAIN call.changes :
                              call.changes[i] = call.rows[e]})
                  = IF Due(call.rows[e]) THEN 1 ELSE 0
        /\ \A i \in DOMAIN call.changes :
              \E e \in DOMAIN call.rows : call.changes[i] = call.rows[e]
        /\ \A i, j \in DOMAIN call.changes :
              i < j => call.changes[i].detected_at >= call.changes[j].detected_at

\* The query returned rows of two detection times, the later first, a row
\* detected exactly at the given time among them, and left out a row of
\* another trial and a row detected earlier
C35_Witness ==
    /\ call.op = "changed_trials"
    /\ \E i, j \in DOMAIN call.changes :
          i < j /\ call.changes[i].detected_at > call.changes[j].detected_at
    /\ \E i \in DOMAIN call.changes :
          call.changes[i].detected_at = call.seven_days_ago
    /\ \E e \in DOMAIN call.rows :
          call.rows[e].nct_id \notin call.trial_nct_ids
    /\ \E e \in DOMAIN call.rows :
          /\ call.rows[e].nct_id \in call.trial_nct_ids
          /\ call.rows[e].detected_at < call.seven_days_ago

----------------------------------------------------------------------------
(* The collector of the asset axis and the call that takes its trials; the *)
(* lifecycle of the scheduler.                                             *)

SpecCollect == Init /\ [][NextCollect]_vars

SpecScheduler == Init /\ [][NextScheduler]_vars

\* The trials of the pages fetched, in the order of the pages
RECURSIVE TrialsOf(_)
TrialsOf(pages) ==
    IF pages = <<>> THEN <<>>
    ELSE parse_studies(Head(pages).studies) \o TrialsOf(Tail(pages))

\* A page request of the collector failed after its retries, and the
\* collector has dealt with it
PageRequestFailed ==
    /\ collector.requests # <<>>
    /\ Request(collector).status = "raised"
    /\ collector.pc # "request"

\* The run has made its next call after the collector was started
HandedOver == ncalls > collector.before

\* C36: when a page request fails after its retries, the collector makes no
\* further request and returns, without raising, the trials parsed from the
\* pages it had fetched, and the run calls process_clinical_trials with them
C36_PartialBatch ==
    PageRequestFailed =>
        /\ collector.pc = "returned"
        /\ Len(collector.requests) = Len(collector.pages) + 1
        /\ collector.trials = TrialsOf(collector.pages)
        /\ HandedOver =>
              /\ call.op = "process_clinical_trials"
              /\ call.trials = collector.trials

\* The first page was fetched and gave a trial, the request for the second
\* page failed, and process_clinical_trials was called with the first page's
\* trials
C36_Witness ==
    /\ PageRequestFailed
    /\ Len(collector.pages) = 1
    /\ collector.trials # <<>>
    /\ HandedOver
    /\ call.trials = collector.trials

\* C37: a call of _make_request sends its request at most 3 times: no
\* attempt follows a success, the call returns exactly when an attempt has
\* succeeded, and it raises exactly when the third attempt has failed
C37_BoundedRetry ==
    \A i \in DOMAIN collector.requests :
        LET request == collector.requests[i]
            attempts == request.attempts
        IN  /\ Len(attempts) <= 3
            /\ \A k \in 1..(Len(attempts) - 1) : attempts[k] = "error"
            /\ (request.status = "returned")
                  <=> (attempts # <<>> /\ attempts[Len(attempts)] = "ok")
            /\ (request.status = "raised")
                  <=> (Len(attempts) = 3 /\ attempts[3] = "error")

\* One call returned the response of its third attempt, and the next call
\* raised after three failed attempts
C37_Witness ==
    /\ Len(collector.requests) = 2
    /\ collector.requests[1] =
           [attempts |-> <<"error", "error", "ok">>, status |-> "returned"]
    /\ collector.requests[2] =
           [attempts |-> <<"error", "error", "error">>, status |-> "raised"]

\* The scheduler that _scheduler names is the only one running, and every
\* scheduler created has the one job "data_collection"
OneScheduler(s) ==
    /\ Cardinality(Live(s)) <= 1
    /\ Live(s) = IF s._scheduler = None THEN {} ELSE {s._scheduler.v}
    /\ \A i \in DOMAIN s.made : s.made[i].jobs = <<"data_collection">>

\* The call that a step makes
Calls(op) == scheduler'.calls = Append(scheduler.calls, op)

SameSchedulers ==
    /\ scheduler'._scheduler = scheduler._scheduler
    /\ scheduler'.made = scheduler.made

\* One more scheduler, running, that _scheduler names; the others as they were
NewScheduler ==
    /\ Len(scheduler'.made) = Len(scheduler.made) + 1
    /\ scheduler'._scheduler = IntV(Len(scheduler'.made))
    /\ scheduler'.made[Len(scheduler'.made)].running
    /\ \A i \in DOMAIN scheduler.made : scheduler'.made[i] = scheduler.made[i]

Lifecycle ==
    /\ OneScheduler(scheduler')
    /\ (Calls("start_scheduler") /\ scheduler._scheduler # None) => SameSchedulers
    /\ (Calls("stop_scheduler") /\ scheduler._scheduler = None) => SameSchedulers
    /\ (Calls("stop_scheduler") /\ scheduler._scheduler # None) =>
           /\ scheduler'._scheduler = None
           /\ Live(scheduler') = {}
    /\ (Calls("start_scheduler") /\ scheduler._scheduler = None) => NewScheduler

\* C38: over every sequence of start_scheduler and stop_scheduler calls at
\* most one scheduler is running, with the one job "data_collection";
\* start_scheduler while one is running and stop_scheduler while none is
\* running change nothing; stop_scheduler stops the scheduler, and a
\* start_scheduler after it creates and starts a new one
C38_SchedulerLifecycle == [][Lifecycle]_vars

\* start twice, stop twice, start again: the second scheduler is the one
\* running
C38_Witness ==
    /\ scheduler.calls = <<"start_scheduler", "start_scheduler",
                           "stop_scheduler", "stop_scheduler",
                           "start_scheduler">>
    /\ Len(scheduler.made) = 2
    /\ Live(scheduler) = {2}

====
